---- MODULE Spec2Model ----
(***************************************************************************)
(* A model of tsx-mailer: the JSX-to-HTML renderer (jsx-runtime), the      *)
(* address formatting helpers (types) and the TsxMailer facade (mailer).   *)
(*                                                                         *)
(* JavaScript values are tagged records: the field t is the value's kind.  *)
(* A JavaScript string is Str(s) with s a sequence of one-character        *)
(* strings, so that escaping, replacing and searching work on characters.  *)
(***************************************************************************)
EXTENDS Integers, Sequences, FiniteSets, TLC

VARIABLES
  config,     \* TsxMailer.config, set by the constructor
  pc,         \* position of the mailer call in flight: "idle", "awaitSendMail", "awaitVerify", "returned", "thrown"
  op,         \* the method of the call in flight: "none", "send", "sendRaw", "compile", "verify", "close"
  template,   \* send: the value the template function returns for options.props
  options,    \* the options argument of the call in flight
  locals,     \* the local constants of the call in flight
  sent,       \* the message descriptors the call in flight has handed to transporter.sendMail
  outcome,    \* what the call returned, or the error it threw
  reply,      \* what the transport's promise the call awaits settled to, undefined before
  parked,     \* the calls suspended at their await while another call runs, oldest first
  fmtIn,      \* formatting: the argument
  fmtOp,      \* formatting: the function applied, "none" before
  fmtOut,     \* formatting: the result
  ctx,        \* rendering: the shape of the tree, a member of Contexts
  text,       \* rendering: the text of the tree's string leaves
  node,       \* rendering: the argument of render
  rendered,   \* rendering: the result of render
  attrIn,     \* renderAttrs: the props argument, its entries in insertion order
  attrList,   \* renderAttrs: the local array attrs at the return
  attrOut,    \* renderAttrs: the result
  renderLog,  \* repeated rendering: the renders made so far, each with its argument and result
  work,       \* rendering step by step: what is still to be rendered, the next item first
  emitted,    \* rendering step by step: the output so far
  invoked     \* rendering step by step: the component functions called so far, in call order

vars == <<config, pc, op, template, options, locals, sent, outcome, reply, parked,
          fmtIn, fmtOp, fmtOut, ctx, text, node, rendered, attrIn, attrList, attrOut,
          renderLog, work, emitted, invoked>>

mailerVars == <<config, pc, op, template, options, locals, sent, outcome, reply, parked>>
fmtVars == <<fmtIn, fmtOp, fmtOut>>
attrVars == <<attrIn, attrList, attrOut>>
stepVars == <<work, emitted, invoked>>
renderVars == <<ctx, text, node, rendered, attrVars, renderLog, stepVars>>

-----------------------------------------------------------------------------
(* JavaScript values *)

Undefined == [t |-> "undefined"]
Null == [t |-> "null"]
Str(s) == [t |-> "string", s |-> s]
Num(n) == [t |-> "number", n |-> n]
Bool(b) == [t |-> "boolean", b |-> b]
Arr(items) == [t |-> "array", items |-> items]
\* an object literal, entries its <<key, value>> pairs in insertion order
Obj(entries) == [t |-> "object", entries |-> entries]
\* an object { name, email }
Named(name, email) == [t |-> "object", name |-> Str(name), email |-> Str(email)]

\* v === null || v === undefined, the test of the ?? and ?. operators
Nullish(v) == v.t \in {"undefined", "null"}

\* a ?? b
Coalesce(a, b) == IF Nullish(a) THEN b ELSE a

\* ToBoolean(v), the test of `v ? x : y` and of `!v`
Truthy(v) ==
  CASE v.t \in {"undefined", "null"} -> FALSE
    [] v.t = "string" -> v.s # <<>>
    [] v.t = "number" -> v.n # 0
    [] v.t = "boolean" -> v.b
    [] OTHER -> TRUE

-----------------------------------------------------------------------------
(* String primitives, on sequences of characters *)

\* s.includes(c) for a one-character c
IncludesChar(s, c) == \E i \in 1..Len(s) : s[i] = c

\* s.replace(/c/g, rep) for a one-character pattern c
RECURSIVE ReplaceAll(_, _, _)
ReplaceAll(s, c, rep) ==
  IF s = <<>> THEN <<>>
  ELSE (IF Head(s) = c THEN rep ELSE <<Head(s)>>) \o ReplaceAll(Tail(s), c, rep)

\* pieces.join(sep), pieces a sequence of character sequences
RECURSIVE Join(_, _)
Join(pieces, sep) ==
  IF pieces = <<>> THEN <<>>
  ELSE IF Len(pieces) = 1 THEN pieces[1]
  ELSE pieces[1] \o sep \o Join(Tail(pieces), sep)

\* s.includes(sub)
Includes(s, sub) ==
  \E i \in 0..(Len(s) - Len(sub)) : SubSeq(s, i + 1, i + Len(sub)) = sub

-----------------------------------------------------------------------------
(* types: address formatting.  A function of result type string returns the *)
(* sequence of characters.                                                   *)

formatEmailAddress_NoEscape(address) ==
  IF address.t = "string" THEN address.s
  ELSE LET n == address.name.s
           name == IF IncludesChar(n, ",") \/ IncludesChar(n, "\"")
                   THEN <<"\"">> \o n \o <<"\"">>
                   ELSE n
       IN name \o <<" ", "<">> \o address.email.s \o <<">">>

formatEmailAddress(address) ==
  IF address.t = "string" THEN address.s
  ELSE LET n == address.name.s
           name == IF IncludesChar(n, ",") \/ IncludesChar(n, "\"")
                   THEN <<"\"">> \o ReplaceAll(n, "\"", <<"\\", "\"">>) \o <<"\"">>
                   ELSE n
       IN name \o <<" ", "<">> \o address.email.s \o <<">">>

formatEmailAddresses_NoSpace(addresses) ==
  LET arr == IF addresses.t = "array" THEN addresses.items ELSE <<addresses>>
  IN Join([i \in 1..Len(arr) |-> formatEmailAddress(arr[i])], <<",">>)

formatEmailAddresses(addresses) ==
  LET arr == IF addresses.t = "array" THEN addresses.items ELSE <<addresses>>
  IN Join([i \in 1..Len(arr) |-> formatEmailAddress(arr[i])], <<",", " ">>)

\* typeof v
TypeOf(v) ==
  IF v.t \in {"undefined", "string", "number", "boolean", "function"} THEN v.t
  ELSE "object"

\* v.k, undefined when v has no property k
Get(v, k) == IF k \in DOMAIN v THEN v[k] ELSE Undefined

isTemplateResult(result) ==
  result # Null /\ TypeOf(result) = "object" /\ "body" \in DOMAIN result

-----------------------------------------------------------------------------
(* jsx-runtime: the renderer.  A VNode is                                   *)
(* [t |-> "vnode", type, props, children]: type is Str(tag) or a function   *)
(* value, props is the sequence of <<key, value>> entries in insertion      *)
(* order (what Object.entries yields), children is a sequence of Child      *)
(* values.                                                                  *)

K_children == <<"c", "h", "i", "l", "d", "r", "e", "n">>
K_key == <<"k", "e", "y">>
K_ref == <<"r", "e", "f">>
K_className == <<"c", "l", "a", "s", "s", "N", "a", "m", "e">>
K_class == <<"c", "l", "a", "s", "s">>
K_style == <<"s", "t", "y", "l", "e">>
K_text == <<"t", "e", "x", "t">>
K_name == <<"n", "a", "m", "e">>
T_fragment == <<"f", "r", "a", "g", "m", "e", "n", "t">>

VOID_ELEMENTS ==
  {<<"a", "r", "e", "a">>,
   <<"b", "a", "s", "e">>,
   <<"b", "r">>,
   <<"c", "o", "l">>,
   <<"e", "m", "b", "e", "d">>,
   <<"h", "r">>,
   <<"i", "m", "g">>,
   <<"i", "n", "p", "u", "t">>,
   <<"l", "i", "n", "k">>,
   <<"m", "e", "t", "a">>,
   <<"p", "a", "r", "a", "m">>,
   <<"s", "o", "u", "r", "c", "e">>,
   <<"t", "r", "a", "c", "k">>,
   <<"w", "b", "r">>}

BOOLEAN_ATTRS ==
  {<<"d", "i", "s", "a", "b", "l", "e", "d">>,
   <<"c", "h", "e", "c", "k", "e", "d">>,
   <<"r", "e", "a", "d", "o", "n", "l", "y">>,
   <<"r", "e", "q", "u", "i", "r", "e", "d">>,
   <<"h", "i", "d", "d", "e", "n">>,
   <<"s", "e", "l", "e", "c", "t", "e", "d">>,
   <<"m", "u", "l", "t", "i", "p", "l", "e">>,
   <<"a", "u", "t", "o", "f", "o", "c", "u", "s">>,
   <<"a", "u", "t", "o", "p", "l", "a", "y">>,
   <<"c", "o", "n", "t", "r", "o", "l", "s">>,
   <<"l", "o", "o", "p">>,
   <<"m", "u", "t", "e", "d">>,
   <<"o", "p", "e", "n">>,
   <<"d", "e", "f", "e", "r">>,
   <<"a", "s", "y", "n", "c">>}

UpperChars == <<"A", "B", "C", "D", "E", "F", "G", "H", "I", "J", "K", "L", "M", "N", "O", "P", "Q", "R", "S", "T", "U", "V", "W", "X", "Y", "Z">>
LowerChars == <<"a", "b", "c", "d", "e", "f", "g", "h", "i", "j", "k", "l", "m", "n", "o", "p", "q", "r", "s", "t", "u", "v", "w", "x", "y", "z">>

IsUpper(c) == \E i \in 1..Len(UpperChars) : UpperChars[i] = c

\* s.toLowerCase(), on the ASCII letters
ToLowerCase(s) ==
  [i \in 1..Len(s) |->
     IF IsUpper(s[i])
     THEN LowerChars[CHOOSE j \in 1..Len(UpperChars) : UpperChars[j] = s[i]]
     ELSE s[i]]

\* String(n) for an integer n
Digits == <<"0", "1", "2", "3", "4", "5", "6", "7", "8", "9">>
RECURSIVE NatToString(_)
NatToString(n) ==
  IF n < 10 THEN <<Digits[n + 1]>>
  ELSE NatToString(n \div 10) \o <<Digits[(n % 10) + 1]>>
NumberToString(n) == IF n < 0 THEN <<"-">> \o NatToString(0 - n) ELSE NatToString(n)

\* String(v) for a string or a number
StringOf(v) == IF v.t = "string" THEN v.s ELSE NumberToString(v.n)

\* the five replacements, the ampersand last: the ampersands of the entities
\* are escaped again
escapeHtml_AmpLast(str) ==
  ReplaceAll(
    ReplaceAll(
      ReplaceAll(
        ReplaceAll(
          ReplaceAll(str, "<", <<"&", "l", "t", ";">>),
          ">", <<"&", "g", "t", ";">>),
        "\"", <<"&", "q", "u", "o", "t", ";">>),
      "'", <<"&", "#", "3", "9", ";">>),
    "&", <<"&", "a", "m", "p", ";">>)

escapeHtml(str) ==
  ReplaceAll(
    ReplaceAll(
      ReplaceAll(
        ReplaceAll(
          ReplaceAll(str, "&", <<"&", "a", "m", "p", ";">>),
          "<", <<"&", "l", "t", ";">>),
        ">", <<"&", "g", "t", ";">>),
      "\"", <<"&", "q", "u", "o", "t", ";">>),
    "'", <<"&", "#", "3", "9", ";">>)

\* props[key], undefined when the key is not among the entries
GetProp(props, key) ==
  IF \E i \in 1..Len(props) : props[i][1] = key
  THEN props[CHOOSE i \in 1..Len(props) : props[i][1] = key][2]
  ELSE Undefined

\* { ...props, [key]: value }: a present key keeps its place, a new one is last
SetProp(props, key, value) ==
  IF \E i \in 1..Len(props) : props[i][1] = key
  THEN [i \in 1..Len(props) |-> IF props[i][1] = key THEN <<key, value>> ELSE props[i]]
  ELSE Append(props, <<key, value>>)

\* const { [key]: _, ...rest } = props
RECURSIVE OmitProp(_, _)
OmitProp(props, key) ==
  IF props = <<>> THEN <<>>
  ELSE IF Head(props)[1] = key THEN OmitProp(Tail(props), key)
  ELSE <<Head(props)>> \o OmitProp(Tail(props), key)

\* k.replace(/([A-Z])/g, '-$1').toLowerCase()
RECURSIVE DashUpper(_)
DashUpper(k) ==
  IF k = <<>> THEN <<>>
  ELSE (IF IsUpper(Head(k)) THEN <<"-", Head(k)>> ELSE <<Head(k)>>) \o DashUpper(Tail(k))
\* the key lowercased, no dash put in
cssKey_NoDash(k) == ToLowerCase(k)
cssKey(k) == ToLowerCase(DashUpper(k))

\* Object.entries(value): the entries of an object in its enumeration order,
\* which is the order the entries sequence of an object value is kept in
\* (insertion order for keys that are not array indices), and the indexed
\* items of an array
ObjectEntries(value) ==
  IF value.t = "array"
  THEN [i \in 1..Len(value.items) |-> <<NatToString(i - 1), value.items[i]>>]
  ELSE value.entries

\* the declarations of a style object
styleStr(value) ==
  Join([i \in 1..Len(ObjectEntries(value)) |->
          cssKey(ObjectEntries(value)[i][1]) \o <<":", " ">>
          \o StringOf(ObjectEntries(value)[i][2])],
       <<";", " ">>)

\* the entry's attribute with the declarations of a style object put between
\* the quotes as they are
attrsOfEntry_RawStyle(key, value) ==
  IF key = K_children \/ key = K_key \/ key = K_ref THEN <<>>
  ELSE IF value = Bool(FALSE) \/ value = Null \/ value = Undefined THEN <<>>
  ELSE LET attrName == IF key = K_className THEN K_class ELSE key
       IN IF attrName \in BOOLEAN_ATTRS /\ value = Bool(TRUE) THEN <<attrName>>
          ELSE IF TypeOf(value) = "string" \/ TypeOf(value) = "number"
            THEN <<attrName \o <<"=", "\"">> \o escapeHtml(StringOf(value)) \o <<"\"">>>>
          ELSE IF TypeOf(value) = "object" /\ attrName = K_style
            THEN <<K_style \o <<"=", "\"">> \o styleStr(value) \o <<"\"">>>>
          ELSE <<>>

\* the entry's attribute with the key ref let through
attrsOfEntry_KeepRef(key, value) ==
  IF key = K_children \/ key = K_key THEN <<>>
  ELSE IF value = Bool(FALSE) \/ value = Null \/ value = Undefined THEN <<>>
  ELSE LET attrName == IF key = K_className THEN K_class ELSE key
       IN IF attrName \in BOOLEAN_ATTRS /\ value = Bool(TRUE) THEN <<attrName>>
          ELSE IF TypeOf(value) = "string" \/ TypeOf(value) = "number"
            THEN <<attrName \o <<"=", "\"">> \o escapeHtml(StringOf(value)) \o <<"\"">>>>
          ELSE IF TypeOf(value) = "object" /\ attrName = K_style
            THEN <<K_style \o <<"=", "\"">> \o escapeHtml(styleStr(value)) \o <<"\"">>>>
          ELSE <<>>

\* the entry's attribute with a true boolean attribute written as name="true"
attrsOfEntry_BoolQuoted(key, value) ==
  IF key = K_children \/ key = K_key \/ key = K_ref THEN <<>>
  ELSE IF value = Bool(FALSE) \/ value = Null \/ value = Undefined THEN <<>>
  ELSE LET attrName == IF key = K_className THEN K_class ELSE key
       IN IF attrName \in BOOLEAN_ATTRS /\ value = Bool(TRUE)
            THEN <<attrName \o <<"=", "\"", "t", "r", "u", "e", "\"">>>>
          ELSE IF TypeOf(value) = "string" \/ TypeOf(value) = "number"
            THEN <<attrName \o <<"=", "\"">> \o escapeHtml(StringOf(value)) \o <<"\"">>>>
          ELSE IF TypeOf(value) = "object" /\ attrName = K_style
            THEN <<K_style \o <<"=", "\"">> \o escapeHtml(styleStr(value)) \o <<"\"">>>>
          ELSE <<>>

\* what one entry of props pushes on attrs: nothing, or one attribute
attrsOfEntry(key, value) ==
  IF key = K_children \/ key = K_key \/ key = K_ref THEN <<>>
  ELSE IF value = Bool(FALSE) \/ value = Null \/ value = Undefined THEN <<>>
  ELSE LET attrName == IF key = K_className THEN K_class ELSE key
       IN IF attrName \in BOOLEAN_ATTRS /\ value = Bool(TRUE) THEN <<attrName>>
          ELSE IF TypeOf(value) = "string" \/ TypeOf(value) = "number"
            THEN <<attrName \o <<"=", "\"">> \o escapeHtml(StringOf(value)) \o <<"\"">>>>
          ELSE IF TypeOf(value) = "object" /\ attrName = K_style
            THEN <<K_style \o <<"=", "\"">> \o escapeHtml(styleStr(value)) \o <<"\"">>>>
          ELSE <<>>

\* the attributes pushed from the last entry to the first
RECURSIVE attrsOf_Reversed(_)
attrsOf_Reversed(props) ==
  IF props = <<>> THEN <<>>
  ELSE attrsOf_Reversed(Tail(props)) \o attrsOfEntry(Head(props)[1], Head(props)[2])

RECURSIVE attrsOf(_)
attrsOf(props) ==
  IF props = <<>> THEN <<>>
  ELSE attrsOfEntry(Head(props)[1], Head(props)[2]) \o attrsOf(Tail(props))

renderAttrs(props) ==
  LET attrs == attrsOf(props)
  IN IF Len(attrs) > 0 THEN <<" ">> \o Join(attrs, <<" ">>) ELSE <<>>

\* jsx(type, props, key), props null or an object
jsx(type, props, key) ==
  LET p == IF props = Null THEN <<>> ELSE props.entries
      children == GetProp(p, K_children)
      rest == OmitProp(p, K_children)
      childArray == IF children = Undefined THEN <<>>
                    ELSE IF children.t = "array" THEN children.items
                    ELSE <<children>>
  IN [t |-> "vnode", type |-> type, props |-> SetProp(rest, K_key, key),
      children |-> childArray]

Fn(name) == [t |-> "function", name |-> name]

\* Fragment(props)
Fragment(props) ==
  LET c == GetProp(props, K_children)
  IN [t |-> "vnode", type |-> Str(T_fragment), props |-> <<>>,
      children |-> IF Truthy(c) THEN c.items ELSE <<>>]

\* the function components: Fragment, and Greeting, Inner and Outer of the
\* runtime's tests
applyComponent(type, props) ==
  CASE type.name = "Fragment" -> Fragment(props)
    [] type.name = "Greeting" ->
         jsx(Str(<<"h", "1">>),
             Obj(<<<<K_children,
                   Str(<<"H", "e", "l", "l", "o", ",", " ">> \o StringOf(GetProp(props, K_name))
                       \o <<"!">>)>>>>),
             Undefined)
    [] type.name = "Inner" ->
         jsx(Str(<<"s", "p", "a", "n">>), Obj(<<<<K_children, GetProp(props, K_text)>>>>), Undefined)
    [] type.name = "Outer" ->
         jsx(Str(<<"d", "i", "v">>),
             Obj(<<<<K_children,
                   jsx(Fn("Inner"), Obj(<<<<K_text, GetProp(props, K_text)>>>>), Undefined)>>>>),
             Undefined)

RECURSIVE renderToString(_)
RECURSIVE renderChildren(_)

\* the child whose text comes out as it is
renderChild_RawText(child) ==
  IF child = Null \/ child = Undefined \/ child = Bool(FALSE) \/ child = Bool(TRUE) THEN <<>>
  ELSE IF TypeOf(child) = "string" THEN child.s
  ELSE IF TypeOf(child) = "number" THEN NumberToString(child.n)
  ELSE IF child.t = "array" THEN renderChildren(child.items)
  ELSE renderToString(child)

\* the child whose array items come out last to first
renderChild_ArrayReversed(child) ==
  IF child = Null \/ child = Undefined \/ child = Bool(FALSE) \/ child = Bool(TRUE) THEN <<>>
  ELSE IF TypeOf(child) = "string" THEN escapeHtml(child.s)
  ELSE IF TypeOf(child) = "number" THEN NumberToString(child.n)
  ELSE IF child.t = "array"
    THEN renderChildren([i \in 1..Len(child.items) |-> child.items[Len(child.items) + 1 - i]])
  ELSE renderToString(child)

\* the child with the booleans written out
renderChild_BoolText(child) ==
  IF child = Null \/ child = Undefined THEN <<>>
  ELSE IF child = Bool(TRUE) THEN <<"t", "r", "u", "e">>
  ELSE IF child = Bool(FALSE) THEN <<"f", "a", "l", "s", "e">>
  ELSE IF TypeOf(child) = "string" THEN escapeHtml(child.s)
  ELSE IF TypeOf(child) = "number" THEN NumberToString(child.n)
  ELSE IF child.t = "array" THEN renderChildren(child.items)
  ELSE renderToString(child)

renderChild(child) ==
  IF child = Null \/ child = Undefined \/ child = Bool(FALSE) \/ child = Bool(TRUE) THEN <<>>
  ELSE IF TypeOf(child) = "string" THEN escapeHtml(child.s)
  ELSE IF TypeOf(child) = "number" THEN NumberToString(child.n)
  ELSE IF child.t = "array" THEN renderChildren(child.items)
  ELSE renderToString(child)

renderChildren(children) ==
  IF children = <<>> THEN <<>>
  ELSE renderChild(Head(children)) \o renderChildren(Tail(children))

\* the renderer that closes a void element like any other
renderToString_VoidClosed(n) ==
  IF n = Null \/ n = Undefined THEN <<>>
  ELSE IF TypeOf(n) = "string" \/ TypeOf(n) = "number" THEN escapeHtml(StringOf(n))
  ELSE IF TypeOf(n.type) = "function"
    THEN renderToString(applyComponent(n.type, SetProp(n.props, K_children, Arr(n.children))))
  ELSE <<"<">> \o n.type.s \o renderAttrs(n.props) \o <<">">> \o renderChildren(n.children)
       \o <<"<", "/">> \o n.type.s \o <<">">>

renderToString(n) ==
  IF n = Null \/ n = Undefined THEN <<>>
  ELSE IF TypeOf(n) = "string" \/ TypeOf(n) = "number" THEN escapeHtml(StringOf(n))
  ELSE IF TypeOf(n.type) = "function"
    THEN renderToString(applyComponent(n.type, SetProp(n.props, K_children, Arr(n.children))))
  ELSE LET attrs == renderAttrs(n.props)
           childrenHtml == renderChildren(n.children)
       IN IF n.type.s \in VOID_ELEMENTS
          THEN <<"<">> \o n.type.s \o attrs \o <<" ", "/", ">">>
          ELSE <<"<">> \o n.type.s \o attrs \o <<">">> \o childrenHtml
               \o <<"<", "/">> \o n.type.s \o <<">">>

render(n) ==
  IF Truthy(n) /\ TypeOf(n) = "object" /\ n.type = Str(T_fragment)
  THEN renderChildren(n.children)
  ELSE renderToString(n)

-----------------------------------------------------------------------------
(* mailer: TsxMailer *)

DOCTYPE == <<"<", "!", "D", "O", "C", "T", "Y", "P", "E", " ", "h", "t", "m", "l", ">", "\n">>
WRAP_HEAD ==
  <<"<", "h", "t", "m", "l", ">", "\n", "<", "h", "e", "a", "d", ">", "\n", " ", " ", "<", "m", "e", "t", "a", " ", "c", "h", "a", "r", "s", "e", "t", "=", "\"", "u", "t", "f", "-", "8", "\"", ">", "\n", " ", " ", "<", "m", "e", "t", "a", " ", "n", "a", "m", "e", "=", "\"", "v", "i", "e", "w", "p", "o", "r", "t", "\"", " ", "c", "o", "n", "t", "e", "n", "t", "=", "\"", "w", "i", "d", "t", "h", "=", "d", "e", "v", "i", "c", "e", "-", "w", "i", "d", "t", "h", ",", " ", "i", "n", "i", "t", "i", "a", "l", "-", "s", "c", "a", "l", "e", "=", "1", ".", "0", "\"", ">", "\n", "<", "/", "h", "e", "a", "d", ">", "\n", "<", "b", "o", "d", "y", ">", "\n">>
WRAP_TAIL == <<"\n", "<", "/", "b", "o", "d", "y", ">", "\n", "<", "/", "h", "t", "m", "l", ">">>
SUBJECT_REQUIRED ==
  <<"E", "m", "a", "i", "l", " ", "s", "u", "b", "j", "e", "c", "t", " ", "i", "s", " ", "r", "e", "q", "u", "i", "r", "e", "d", ".", " ", "P", "r", "o", "v", "i", "d", "e", " ", "i", "t", " ", "i", "n", " ", "o", "p", "t", "i", "o", "n", "s", " ", "o", "r", " ", "t", "e", "m", "p", "l", "a", "t", "e", " ", "m", "e", "t", "a", "d", "a", "t", "a", ".">>

\* private formatSubject(subject); the mutant forgets the suffix
formatSubject_NoSuffix(subject) ==
  Coalesce(config.subjectPrefix, Str(<<>>)).s \o subject

formatSubject(subject) ==
  LET prefix == Coalesce(config.subjectPrefix, Str(<<>>)).s
      suffix == Coalesce(config.subjectSuffix, Str(<<>>)).s
  IN prefix \o subject \o suffix

\* renderHtml looking for <html in small letters only
renderHtml_CaseSensitive(vnode) ==
  LET body == render(vnode)
  IN IF Includes(body, <<"<", "h", "t", "m", "l">>)
     THEN DOCTYPE \o body
     ELSE DOCTYPE \o WRAP_HEAD \o body \o WRAP_TAIL

\* renderHtml putting the boilerplate around every body
renderHtml_AlwaysWrap(vnode) ==
  DOCTYPE \o WRAP_HEAD \o render(vnode) \o WRAP_TAIL

\* private renderHtml(vnode)
renderHtml(vnode) ==
  LET body == render(vnode)
  IN IF Includes(ToLowerCase(body), <<"<", "h", "t", "m", "l">>)
     THEN DOCTYPE \o body
     ELSE DOCTYPE \o WRAP_HEAD \o body \o WRAP_TAIL

\* private renderText(html): html-to-text's convert is an external function of
\* the html (and of fixed options); its result is kept symbolic
renderText(html) == [t |-> "string", convertOf |-> html]

\* { html, text, meta } of compile, text converted from the finished html
compiledEmail(html, meta) == [html |-> html, text |-> renderText(html), meta |-> meta]

\* compile that returns no meta
compile_DropMeta(tpl) ==
  IF isTemplateResult(tpl)
  THEN compiledEmail(renderHtml(tpl.body), Undefined)
  ELSE compiledEmail(renderHtml(tpl), Undefined)

\* compile(template, props); tpl is the value template(props) returns, and a
\* CompiledEmail without meta has meta undefined
compile(tpl) ==
  IF isTemplateResult(tpl)
  THEN compiledEmail(renderHtml(tpl.body), Get(tpl, "meta"))
  ELSE compiledEmail(renderHtml(tpl), Undefined)

\* meta?.k
MetaGet(meta, k) == IF Nullish(meta) THEN Undefined ELSE Get(meta, k)

\* a ? f(a) : undefined, f an address formatter
FormattedOrUndefined(a, formatted) == IF Truthy(a) THEN Str(formatted) ELSE Undefined

\* const rawSubject = options.subject ?? meta?.subject; the mutant uses ||
rawSubjectOf_Or(opts, meta) ==
  IF Truthy(opts.subject) THEN opts.subject ELSE MetaGet(meta, "subject")

\* a mutant that falls back to a default subject instead of failing
rawSubjectOf_Default(opts, meta) ==
  Coalesce(Coalesce(opts.subject, MetaGet(meta, "subject")), Str(<<"(", "n", "o", "n", "e", ")">>))

rawSubjectOf(opts, meta) == Coalesce(opts.subject, MetaGet(meta, "subject"))

\* const from = options.from ?? meta?.from ?? this.config.defaultFrom
fromOf(opts, meta) ==
  Coalesce(Coalesce(opts.from, MetaGet(meta, "from")), config.defaultFrom)

\* const replyTo = options.replyTo ?? meta?.replyTo
replyToOf(opts, meta) == Coalesce(opts.replyTo, MetaGet(meta, "replyTo"))

\* a mutant whose bcc line was copied from the cc line
sendMessage_BccFromCc(opts, compiled, from, subject, replyTo) ==
  [from |-> FormattedOrUndefined(from, formatEmailAddress(from)),
   to |-> Str(formatEmailAddresses(opts.to)),
   cc |-> FormattedOrUndefined(opts.cc, formatEmailAddresses(opts.cc)),
   bcc |-> FormattedOrUndefined(opts.cc, formatEmailAddresses(opts.cc)),
   replyTo |-> FormattedOrUndefined(replyTo, formatEmailAddress(replyTo)),
   subject |-> Str(subject),
   html |-> Str(compiled.html),
   text |-> compiled.text]

\* the argument of transporter.sendMail in send
sendMessage(opts, compiled, from, subject, replyTo) ==
  [from |-> FormattedOrUndefined(from, formatEmailAddress(from)),
   to |-> Str(formatEmailAddresses(opts.to)),
   cc |-> FormattedOrUndefined(opts.cc, formatEmailAddresses(opts.cc)),
   bcc |-> FormattedOrUndefined(opts.bcc, formatEmailAddresses(opts.bcc)),
   replyTo |-> FormattedOrUndefined(replyTo, formatEmailAddress(replyTo)),
   subject |-> Str(subject),
   html |-> Str(compiled.html),
   text |-> compiled.text]

\* a send that keeps the sender of its options as the default of the calls after it
send_StickyFrom(tpl, opts) ==
  /\ pc = "idle"
  /\ op' = "send"
  /\ reply' = Undefined
  /\ template' = tpl
  /\ options' = opts
  /\ \E compiled \in {compile(tpl)} :
     \E from \in {fromOf(opts, compiled.meta)} :
     \E rawSubject \in {rawSubjectOf(opts, compiled.meta)} :
       IF ~Truthy(rawSubject)
       THEN /\ pc' = "thrown"
            /\ locals' = [meta |-> compiled.meta, from |-> from, rawSubject |-> rawSubject]
            /\ sent' = <<>>
            /\ outcome' = [kind |-> "throw", error |-> SUBJECT_REQUIRED]
       ELSE \E subject \in {formatSubject(rawSubject.s)} :
            \E replyTo \in {replyToOf(opts, compiled.meta)} :
              /\ pc' = "awaitSendMail"
              /\ locals' = [meta |-> compiled.meta, from |-> from, rawSubject |-> rawSubject,
                            subject |-> subject, replyTo |-> replyTo]
              /\ sent' = <<sendMessage(opts, compiled, from, subject, replyTo)>>
              /\ outcome' = Undefined
  /\ config' = [config EXCEPT !.defaultFrom = Coalesce(opts.from, config.defaultFrom)]
  /\ UNCHANGED <<parked, fmtVars, renderVars>>

\* send(template, options), up to its await: the call either throws the
\* subject error or hands one message to transporter.sendMail and suspends.
\* A local constant `const x = e` is bound as \E x \in {e}.
send(tpl, opts) ==
  /\ pc = "idle"
  /\ op' = "send"
  /\ reply' = Undefined
  /\ template' = tpl
  /\ options' = opts
  /\ \E compiled \in {compile(tpl)} :
     \E from \in {fromOf(opts, compiled.meta)} :
     \E rawSubject \in {rawSubjectOf(opts, compiled.meta)} :
       IF ~Truthy(rawSubject)
       THEN /\ pc' = "thrown"
            /\ locals' = [meta |-> compiled.meta, from |-> from, rawSubject |-> rawSubject]
            /\ sent' = <<>>
            /\ outcome' = [kind |-> "throw", error |-> SUBJECT_REQUIRED]
       ELSE \E subject \in {formatSubject(rawSubject.s)} :
            \E replyTo \in {replyToOf(opts, compiled.meta)} :
              /\ pc' = "awaitSendMail"
              /\ locals' = [meta |-> compiled.meta, from |-> from, rawSubject |-> rawSubject,
                            subject |-> subject, replyTo |-> replyTo]
              /\ sent' = <<sendMessage(opts, compiled, from, subject, replyTo)>>
              /\ outcome' = Undefined
  /\ UNCHANGED <<config, parked, fmtVars, renderVars>>

\* the argument of transporter.sendMail in sendRaw
sendRawMessage(opts, from, subject) ==
  [from |-> FormattedOrUndefined(from, formatEmailAddress(from)),
   to |-> Str(formatEmailAddresses(opts.to)),
   cc |-> FormattedOrUndefined(opts.cc, formatEmailAddresses(opts.cc)),
   bcc |-> FormattedOrUndefined(opts.bcc, formatEmailAddresses(opts.bcc)),
   replyTo |-> FormattedOrUndefined(opts.replyTo, formatEmailAddress(opts.replyTo)),
   subject |-> Str(subject),
   html |-> opts.html,
   text |-> Coalesce(opts.text, renderText(opts.html.s))]

\* sendRaw(options), up to its await
sendRaw(opts) ==
  /\ pc = "idle"
  /\ op' = "sendRaw"
  /\ reply' = Undefined
  /\ template' = Undefined
  /\ options' = opts
  /\ \E from \in {Coalesce(opts.from, config.defaultFrom)} :
     \E subject \in {formatSubject(opts.subject.s)} :
       /\ pc' = "awaitSendMail"
       /\ locals' = [from |-> from, subject |-> subject]
       /\ sent' = <<sendRawMessage(opts, from, subject)>>
       /\ outcome' = Undefined
  /\ UNCHANGED <<config, parked, fmtVars, renderVars>>

\* the promise of transporter.sendMail fulfils with info: send and sendRaw
\* return { messageId, accepted, rejected } of it
sendMailFulfilled(info) ==
  /\ pc = "awaitSendMail"
  /\ pc' = "returned"
  /\ reply' = [kind |-> "fulfilled", value |-> info]
  /\ outcome' = [kind |-> "return",
                 value |-> [messageId |-> info.messageId, accepted |-> info.accepted,
                            rejected |-> info.rejected]]
  /\ UNCHANGED <<config, parked, op, template, options, locals, sent, fmtVars, renderVars>>

\* a rejection answered by handing the message to sendMail once more
sendMailRejected_Retry(err) ==
  /\ pc = "awaitSendMail"
  /\ pc' = "awaitSendMail"
  /\ reply' = [kind |-> "rejected", error |-> err]
  /\ sent' = sent \o sent
  /\ UNCHANGED <<config, parked, op, template, options, locals, outcome, fmtVars, renderVars>>

\* the promise of transporter.sendMail rejects: the await rethrows the error
sendMailRejected(err) ==
  /\ pc = "awaitSendMail"
  /\ pc' = "thrown"
  /\ reply' = [kind |-> "rejected", error |-> err]
  /\ outcome' = [kind |-> "throw", error |-> err]
  /\ UNCHANGED <<config, parked, op, template, options, locals, sent, fmtVars, renderVars>>

\* verify(), up to its await of transporter.verify() inside the try
verify ==
  /\ pc = "idle"
  /\ pc' = "awaitVerify"
  /\ op' = "verify"
  /\ template' = Undefined
  /\ options' = Undefined
  /\ locals' = Undefined
  /\ sent' = <<>>
  /\ outcome' = Undefined
  /\ reply' = Undefined
  /\ UNCHANGED <<config, parked, fmtVars, renderVars>>

\* verify that lets the transport's error out
verifyRejected_Rethrow(err) ==
  /\ pc = "awaitVerify"
  /\ pc' = "thrown"
  /\ reply' = [kind |-> "rejected", error |-> err]
  /\ outcome' = [kind |-> "throw", error |-> err]
  /\ UNCHANGED <<config, parked, op, template, options, locals, sent, fmtVars, renderVars>>

\* the promise of transporter.verify fulfils: return true
verifyFulfilled(value) ==
  /\ pc = "awaitVerify"
  /\ pc' = "returned"
  /\ reply' = [kind |-> "fulfilled", value |-> value]
  /\ outcome' = [kind |-> "return", value |-> Bool(TRUE)]
  /\ UNCHANGED <<config, parked, op, template, options, locals, sent, fmtVars, renderVars>>

\* the promise of transporter.verify rejects: the catch returns false
verifyRejected(err) ==
  /\ pc = "awaitVerify"
  /\ pc' = "returned"
  /\ reply' = [kind |-> "rejected", error |-> err]
  /\ outcome' = [kind |-> "return", value |-> Bool(FALSE)]
  /\ UNCHANGED <<config, parked, op, template, options, locals, sent, fmtVars, renderVars>>

\* close(): transporter.close(), nothing returned
close ==
  /\ pc = "idle"
  /\ pc' = "returned"
  /\ op' = "close"
  /\ template' = Undefined
  /\ options' = Undefined
  /\ locals' = Undefined
  /\ sent' = <<>>
  /\ outcome' = [kind |-> "return", value |-> Undefined]
  /\ reply' = Undefined
  /\ UNCHANGED <<config, parked, fmtVars, renderVars>>

\* the call is over and its frame is gone; the mailer takes the next call
callEnds ==
  /\ pc \in {"returned", "thrown"}
  /\ pc' = "idle"
  /\ op' = "none"
  /\ template' = Undefined
  /\ options' = Undefined
  /\ locals' = Undefined
  /\ sent' = <<>>
  /\ outcome' = Undefined
  /\ reply' = Undefined
  /\ UNCHANGED <<config, parked, fmtVars, renderVars>>

-----------------------------------------------------------------------------
(* The mailer's environment: the configurations, templates and options the  *)
(* calls are made with, and what the transport answers.                     *)

S_empty == Str(<<>>)

Configs ==
  [defaultFrom : {Undefined, Str(<<"d", "@", "x">>)},
   subjectPrefix : {Undefined, Str(<<"[", "A", "]", " ">>)},
   subjectSuffix : {Undefined, Str(<<" ", "-", "Z">>)}]

\* jsx('p', { children: 'Test' })
BodyP == jsx(Str(<<"p">>), Obj(<<<<K_children, Str(<<"T", "e", "s", "t">>)>>>>), Undefined)
\* <html><body>Hi</body></html>
BodyHtml ==
  jsx(Str(<<"h", "t", "m", "l">>),
      Obj(<<<<K_children,
            jsx(Str(<<"b", "o", "d", "y">>), Obj(<<<<K_children, Str(<<"H", "i">>)>>>>),
                Undefined)>>>>),
      Undefined)

Metas ==
  [t : {"object"},
   subject : {Undefined, S_empty, Str(<<"T">>)},
   from : {Undefined, S_empty, Str(<<"m", "@", "x">>)},
   replyTo : {Undefined, Named(<<"H">>, <<"h", "@", "x">>)}]

\* what a template returns: a VNode, a TemplateResult without meta, one whose
\* meta is undefined (the email helper's), or one with meta
Templates ==
  {BodyP, [t |-> "object", body |-> BodyHtml]}
  \cup [t : {"object"}, body : {BodyP}, meta : {Undefined} \cup Metas]

ToValues == {Str(<<"t", "@", "x">>), Arr(<<Named(<<"A", ",", "B">>, <<"a", "@", "x">>), Str(<<"t", "@", "x">>)>>)}
CcValues == {Undefined, S_empty, Arr(<<Str(<<"c", "@", "x">>), Str(<<"c", "@", "x">>)>>)}
BccValues == {Undefined, Str(<<"b", "@", "x">>), Arr(<<>>)}

SendOptions ==
  [to : ToValues, cc : CcValues, bcc : BccValues,
   subject : {Undefined, S_empty, Str(<<"H", "i">>)},
   from : {Undefined, S_empty, Named(<<"O">>, <<"o", "@", "x">>)},
   replyTo : {Undefined, S_empty, Str(<<"r", "@", "x">>)}]

SendRawOptions ==
  [to : ToValues, cc : {Undefined, S_empty}, bcc : {Undefined, Str(<<"b", "@", "x">>)},
   subject : {S_empty, Str(<<"H", "i">>)},
   html : {Str(<<"<", "b", ">", "x", "<", "/", "b", ">">>)},
   text : {Undefined, S_empty, Str(<<"x">>)},
   from : {Undefined, S_empty, Str(<<"o", "@", "x">>)},
   replyTo : {Undefined, Str(<<"r", "@", "x">>)}]

SendInfos ==
  {[messageId |-> "<id-1>", accepted |-> <<"t@x">>, rejected |-> <<>>],
   [messageId |-> "<id-2>", accepted |-> <<>>, rejected |-> <<"t@x">>]}

TransportErrors ==
  {<<"E", "C", "O", "N", "N", "R", "E", "F", "U", "S", "E", "D">>,
   <<"C", "o", "n", "n", "e", "c", "t", "i", "o", "n", " ", "f", "a", "i", "l", "e", "d">>}

\* what transporter.verify() fulfils with
VerifyValues == {Bool(TRUE)}

FmtIdle == fmtIn = Undefined /\ fmtOp = "none" /\ fmtOut = Undefined
AttrsIdle == attrIn = Undefined /\ attrList = <<>> /\ attrOut = Undefined
StepsIdle == work = <<>> /\ emitted = <<>> /\ invoked = <<>>
RenderIdle ==
  /\ ctx = "none" /\ text = <<>> /\ node = Undefined /\ rendered = Undefined /\ AttrsIdle
  /\ renderLog = <<>>
  /\ StepsIdle

\* the constructor: this.config = config
Init ==
  /\ config \in Configs
  /\ pc = "idle"
  /\ op = "none"
  /\ template = Undefined
  /\ options = Undefined
  /\ locals = Undefined
  /\ sent = <<>>
  /\ outcome = Undefined
  /\ reply = Undefined
  /\ parked = <<>>
  /\ FmtIdle
  /\ RenderIdle

\* the caller makes the next call once the one before is over
Next ==
  \/ pc = "idle" /\ \E tpl \in Templates, opts \in SendOptions : send(tpl, opts)
  \/ pc = "idle" /\ \E opts \in SendRawOptions : sendRaw(opts)
  \/ \E info \in SendInfos : sendMailFulfilled(info)
  \/ \E err \in TransportErrors : sendMailRejected(err)
  \/ verify
  \/ \E value \in VerifyValues : verifyFulfilled(value)
  \/ \E err \in TransportErrors : verifyRejected(err)
  \/ close
  \/ callEnds

Spec == Init /\ [][Next]_vars

-----------------------------------------------------------------------------
(* Properties of send and sendRaw, checked under Spec *)

\* a value the caller or the template gave: neither undefined nor null
Supplied(v) == v # Undefined /\ v # Null
\* a supplied value other than the empty string
SuppliedNonEmpty(v) == Supplied(v) /\ v # S_empty

\* the meta of the template's result, read off the result itself
TemplateMeta == IF "meta" \in DOMAIN template THEN template.meta ELSE Undefined
TemplateMetaField(k) == IF TemplateMeta = Undefined THEN Undefined ELSE TemplateMeta[k]

InSend == op = "send" /\ pc # "idle"
Handed == pc # "idle" /\ Len(sent) > 0
ThrewSubjectRequired ==
  pc = "thrown" /\ outcome = [kind |-> "throw", error |-> SUBJECT_REQUIRED]

C2_NoSubjectNoTransport ==
  (InSend /\ ~Supplied(options.subject) /\ ~Supplied(TemplateMetaField("subject")))
    => (ThrewSubjectRequired /\ sent = <<>>)

\* C2 witness: such a call has been made and has thrown
C2_Witness ==
  /\ InSend
  /\ ~Supplied(options.subject)
  /\ ~Supplied(TemplateMetaField("subject"))
  /\ ThrewSubjectRequired

\* C3: whenever the template metadata declares a non-empty subject, send does
\* not fail with the subject-required error, whatever options.subject is
\* (absent, the empty string or non-empty).
C3_MetaSubjectSuffices ==
  (InSend /\ SuppliedNonEmpty(TemplateMetaField("subject"))) => ~ThrewSubjectRequired

\* the affix the configuration gives, the empty string when unset
Affix(v) == IF Supplied(v) THEN v.s ELSE <<>>
\* the subject of the call before affixing
ResolvedSubject == IF op = "send" THEN locals.rawSubject.s ELSE options.subject.s

\* C4: the subject send and sendRaw hand to the transport is exactly
\* subjectPrefix + resolved subject + subjectSuffix, an unset affix counting
\* as the empty string, whether the subject came from the options or from
\* the template metadata.
C4_SubjectAffixes ==
  Handed =>
    sent[1].subject =
      Str(Affix(config.subjectPrefix) \o ResolvedSubject \o Affix(config.subjectSuffix))

\* C4 witness: a template's subject is handed over between both affixes
C4_Witness ==
  /\ Handed
  /\ op = "send"
  /\ ~Supplied(options.subject)
  /\ Supplied(config.subjectPrefix)
  /\ Supplied(config.subjectSuffix)
  /\ sent[1].subject = Str(<<"[", "A", "]", " ", "T", " ", "-", "Z">>)

\* the first of the values that Present accepts, undefined when none does
FirstOf3(Present(_), a, b, c) ==
  IF Present(a) THEN a ELSE IF Present(b) THEN b ELSE IF Present(c) THEN c ELSE Undefined
\* the formatted address, absent when there is none
FormattedAddress(a) == IF a = Undefined THEN Undefined ELSE Str(formatEmailAddress(a))
FormattedAddresses(a) == IF a = Undefined THEN Undefined ELSE Str(formatEmailAddresses(a))

\* C5: the from send hands to the transport is the formatted options.from if
\* supplied, else the formatted meta.from if supplied, else the formatted
\* config.defaultFrom if configured, else absent.  The claim is stated under
\* both readings of "supplied" (not undefined; not undefined and not empty):
\* the from handed over is to agree with one of them.
C5_FromPrecedence ==
  (op = "send" /\ Handed) =>
    \/ sent[1].from =
         FormattedAddress(FirstOf3(Supplied, options.from, TemplateMetaField("from"),
                                   config.defaultFrom))
    \/ sent[1].from =
         FormattedAddress(FirstOf3(SuppliedNonEmpty, options.from, TemplateMetaField("from"),
                                   config.defaultFrom))

\* C6: the replyTo send hands to the transport is the formatted
\* options.replyTo if supplied, else the formatted meta.replyTo if supplied,
\* else absent, under either reading of "supplied" (as for C5).
C6_ReplyToPrecedence ==
  (op = "send" /\ Handed) =>
    \/ sent[1].replyTo =
         FormattedAddress(FirstOf3(Supplied, options.replyTo, TemplateMetaField("replyTo"),
                                   Undefined))
    \/ sent[1].replyTo =
         FormattedAddress(FirstOf3(SuppliedNonEmpty, options.replyTo,
                                   TemplateMetaField("replyTo"), Undefined))

\* C7 as claimed: to is the formatted options.to, and cc and bcc are the
\* formatted option value when supplied and absent otherwise.
C7_RecipientsAsClaimed ==
  (op = "send" /\ Handed) =>
    /\ sent[1].to = Str(formatEmailAddresses(options.to))
    /\ sent[1].cc = (IF Supplied(options.cc) THEN FormattedAddresses(options.cc) ELSE Undefined)
    /\ sent[1].bcc = (IF Supplied(options.bcc) THEN FormattedAddresses(options.bcc) ELSE Undefined)

\* C7, amended: to is the formatted options.to, and cc and bcc are the
\* formatted option value when supplied and not the empty string, and absent
\* otherwise; template metadata and configuration contribute nothing.
C7_Recipients ==
  (op = "send" /\ Handed) =>
    /\ sent[1].to = Str(formatEmailAddresses(options.to))
    /\ sent[1].cc =
         (IF SuppliedNonEmpty(options.cc) THEN FormattedAddresses(options.cc) ELSE Undefined)
    /\ sent[1].bcc =
         (IF SuppliedNonEmpty(options.bcc) THEN FormattedAddresses(options.bcc) ELSE Undefined)

\* C7 witness: a message with several recipients, a cc list and an empty bcc
\* list is handed over, from a template that declares metadata
C7_Witness ==
  /\ op = "send" /\ Handed
  /\ options.to.t = "array"
  /\ options.cc.t = "array"
  /\ options.bcc = Arr(<<>>)
  /\ TemplateMeta # Undefined
  /\ sent[1].to = Str(<<"\"", "A", ",", "B", "\"", " ", "<", "a", "@", "x", ">", ",", " ", "t", "@", "x">>)
  /\ sent[1].cc = Str(<<"c", "@", "x", ",", " ", "c", "@", "x">>)
  /\ sent[1].bcc = Str(<<>>)

-----------------------------------------------------------------------------
(* The address formatters on their own: SpecFmt draws an argument and       *)
(* applies formatEmailAddress or formatEmailAddresses to it.               *)

MaxNameLen == 3
MaxAddrs == 3

\* the sequences over S of length at most n
SeqsUpTo(S, n) == UNION {[1..k -> S] : k \in 0..n}

NameChars == {"J", " ", ",", "\""}
FmtEmails == {<<"j", "@", "x">>, <<"k", "@", "y">>}
FmtStrings == {<<>>, <<"j", "@", "x">>, <<"a", ",", "b">>, <<"\"", "q", "\"">>}
FmtAddresses ==
  {Str(a) : a \in FmtStrings}
  \cup {Named(n, e) : n \in SeqsUpTo(NameChars, MaxNameLen), e \in FmtEmails}
FmtListMembers ==
  {Str(<<"j", "@", "x">>), Str(<<>>), Named(<<"J", ",", "\"">>, <<"j", "@", "x">>), Named(<<"J">>, <<"k", "@", "y">>)}
FmtLists == {Arr(l) : l \in SeqsUpTo(FmtListMembers, MaxAddrs)}

MailerOff ==
  /\ config = Undefined
  /\ pc = "off"
  /\ op = "none"
  /\ template = Undefined
  /\ options = Undefined
  /\ locals = Undefined
  /\ sent = <<>>
  /\ outcome = Undefined
  /\ reply = Undefined
  /\ parked = <<>>

InitFmt ==
  /\ fmtIn \in FmtAddresses \cup FmtLists
  /\ fmtOp = "none"
  /\ fmtOut = Undefined
  /\ MailerOff
  /\ RenderIdle

applyFormatEmailAddress ==
  /\ fmtOp = "none"
  /\ fmtIn.t # "array"
  /\ fmtOp' = "formatEmailAddress"
  /\ fmtOut' = Str(formatEmailAddress(fmtIn))
  /\ UNCHANGED <<fmtIn, mailerVars, renderVars>>

applyFormatEmailAddresses ==
  /\ fmtOp = "none"
  /\ fmtOp' = "formatEmailAddresses"
  /\ fmtOut' = Str(formatEmailAddresses(fmtIn))
  /\ UNCHANGED <<fmtIn, mailerVars, renderVars>>

NextFmt == applyFormatEmailAddress \/ applyFormatEmailAddresses

SpecFmt == InitFmt /\ [][NextFmt]_vars

\* the name with a backslash before every double quote, built from its end
RECURSIVE QuotesEscaped(_)
QuotesEscaped(n) ==
  IF n = <<>> THEN <<>>
  ELSE QuotesEscaped(SubSeq(n, 1, Len(n) - 1))
       \o (IF n[Len(n)] = "\"" THEN <<"\\", "\"">> ELSE <<n[Len(n)]>>)

RECURSIVE JoinedFromEnd(_)
JoinedFromEnd(l) ==
  IF l = <<>> THEN <<>>
  ELSE IF Len(l) = 1 THEN formatEmailAddress(l[1])
  ELSE JoinedFromEnd(SubSeq(l, 1, Len(l) - 1)) \o <<",", " ">> \o formatEmailAddress(l[Len(l)])

\* C9: formatEmailAddresses of a sequence is the formatEmailAddress results of
\* its members joined by ", " in input order, duplicates kept; a single
\* address formats as formatEmailAddress of it and the empty sequence as the
\* empty string.
C9_FormatEmailAddresses ==
  fmtOp = "formatEmailAddresses" =>
    /\ fmtIn.t = "array" => fmtOut = Str(JoinedFromEnd(fmtIn.items))
    /\ fmtIn.t # "array" => fmtOut = Str(formatEmailAddress(fmtIn))
    /\ fmtIn = Arr(<<>>) => fmtOut = Str(<<>>)

\* C9 witness: a sequence that holds the same address twice has been formatted
C9_Witness ==
  /\ fmtOp = "formatEmailAddresses"
  /\ fmtIn = Arr(<<Str(<<"j", "@", "x">>), Named(<<"J">>, <<"k", "@", "y">>), Str(<<"j", "@", "x">>)>>)
  /\ fmtOut = Str(<<"j", "@", "x">> \o <<",", " ", "J", " ", "<">> \o <<"k", "@", "y">> \o <<">", ",", " ">> \o <<"j", "@", "x">>)

-----------------------------------------------------------------------------
(* The renderer on its own: SpecRender draws a tree, built the way JSX      *)
(* builds it, whose string leaves all carry one text, and renders it.       *)

MaxTextLen == 2

TextChars == {"a", "&", "<", ">", "\"", "'"}
Texts == SeqsUpTo(TextChars, MaxTextLen)

T_div == <<"d", "i", "v">>
T_p == <<"p">>
T_b == <<"b">>
T_ul == <<"u", "l">>
T_li == <<"l", "i">>
T_br == <<"b", "r">>

\* the trees: each context places the text s in string leaves
TreeOf(c, s) ==
  CASE c = "text" -> Str(s)
    [] c = "child" -> jsx(Str(T_div), Obj(<<<<K_children, Str(s)>>>>), Undefined)
    [] c = "deep" ->
         jsx(Str(T_div),
             Obj(<<<<K_className, Str(<<"c">>)>>,
                   <<K_children,
                     Arr(<<jsx(Str(T_p), Obj(<<<<K_children, Arr(<<Str(<<"x">>), Str(s)>>)>>>>),
                               Undefined),
                           Num(5)>>)>>>>),
             Undefined)
    [] c = "arrays" ->
         jsx(Str(T_ul),
             Obj(<<<<K_children,
                     Arr(<<Arr(<<Str(s), Arr(<<Null, Str(s)>>)>>), Bool(TRUE)>>)>>>>),
             Undefined)
    [] c = "list" ->
         jsx(Str(T_ul),
             Obj(<<<<K_children,
                     Arr(<<jsx(Str(T_li), Obj(<<<<K_children, Str(s)>>>>), Undefined),
                           jsx(Str(T_li), Obj(<<<<K_children, Str(s)>>>>), Undefined)>>)>>>>),
             Undefined)
    [] c = "Inner" -> jsx(Fn("Inner"), Obj(<<<<K_text, Str(s)>>>>), Undefined)
    [] c = "Outer" -> jsx(Fn("Outer"), Obj(<<<<K_text, Str(s)>>>>), Undefined)
    [] c = "Greeting" -> jsx(Fn("Greeting"), Obj(<<<<K_name, Str(s)>>>>), Undefined)
    [] c = "FragmentCall" ->
         Fragment(<<<<K_children,
                      Arr(<<Str(s),
                            jsx(Str(T_b), Obj(<<<<K_children, Str(s)>>>>), Undefined)>>)>>>>)
    [] c = "FragmentNode" -> jsx(Fn("Fragment"), Obj(<<<<K_children, Str(s)>>>>), Undefined)
    [] c = "FragmentChild" ->
         jsx(Str(T_div),
             Obj(<<<<K_children,
                     jsx(Fn("Fragment"), Obj(<<<<K_children, Arr(<<Str(s), Num(0)>>)>>>>),
                         Undefined)>>>>),
             Undefined)
    [] c = "void" -> jsx(Str(T_br), Obj(<<<<K_children, Str(s)>>>>), Undefined)

Contexts ==
  {"text", "child", "deep", "arrays", "list", "Inner", "Outer", "Greeting",
   "FragmentCall", "FragmentNode", "FragmentChild", "void"}

InitRender ==
  /\ ctx \in Contexts
  /\ text \in Texts
  /\ node = TreeOf(ctx, text)
  /\ rendered = Undefined
  /\ AttrsIdle
  /\ renderLog = <<>>
  /\ StepsIdle
  /\ MailerOff
  /\ FmtIdle

applyRender ==
  /\ rendered = Undefined
  /\ rendered' = Str(render(node))
  /\ UNCHANGED <<ctx, text, node, attrVars, renderLog, stepVars, mailerVars, fmtVars>>

NextRender == applyRender

SpecRender == InitRender /\ [][NextRender]_vars

\* the entity of a character, the character itself when it has none
EntityOf(c) ==
  CASE c = "&" -> <<"&", "a", "m", "p", ";">>
    [] c = "<" -> <<"&", "l", "t", ";">>
    [] c = ">" -> <<"&", "g", "t", ";">>
    [] c = "\"" -> <<"&", "q", "u", "o", "t", ";">>
    [] c = "'" -> <<"&", "#", "3", "9", ";">>
    [] OTHER -> <<c>>

\* the character-by-character image of a string
RECURSIVE CharImage(_)
CharImage(str) ==
  IF str = <<>> THEN <<>>
  ELSE CharImage(SubSeq(str, 1, Len(str) - 1)) \o EntityOf(str[Len(str)])

\* how many string leaves of the tree of a context are emitted: the children
\* of a void element are not
EmittedLeaves(c) ==
  CASE c \in {"arrays", "list", "FragmentCall"} -> 2
    [] c = "void" -> 0
    [] OTHER -> 1

\* out is base with the string img put in at k places
PutIn(out, base, img, k) ==
  CASE k = 0 -> out = base
    [] k = 1 -> \E i \in 0..Len(base) :
                  out = SubSeq(base, 1, i) \o img \o SubSeq(base, i + 1, Len(base))
    [] k = 2 -> \E i \in 0..Len(base) : \E j \in i..Len(base) :
                  out = SubSeq(base, 1, i) \o img \o SubSeq(base, i + 1, j) \o img
                        \o SubSeq(base, j + 1, Len(base))

\* C10: every string leaf that is emitted, at any depth and also through a
\* component's props or children, is in the output as its character-by-
\* character image: the output is the rendering of the same tree with empty
\* leaves, with the image of the text put in once per emitted leaf.
C10_TextEscapedOnce ==
  rendered # Undefined =>
    PutIn(rendered.s, render(TreeOf(ctx, <<>>)), CharImage(text), EmittedLeaves(ctx))

\* C10 witness: a text with an ampersand and a quote has come out of a nested
\* component as its image
C10_Witness ==
  /\ ctx = "Outer"
  /\ text = <<"&", "\"">>
  /\ rendered = Str(<<"<", "d", "i", "v", ">", "<", "s", "p", "a", "n", ">", "&", "a", "m", "p", ";", "&", "q", "u", "o", "t", ";", "<", "/", "s", "p", "a", "n", ">", "<", "/", "d", "i", "v", ">">>)

-----------------------------------------------------------------------------
(* The attribute serializer on its own: SpecAttrs draws a props mapping,    *)
(* given as its entries in insertion order, and applies renderAttrs to it.  *)

MaxAttrs == 3

K_title == <<"t", "i", "t", "l", "e">>
K_checked == <<"c", "h", "e", "c", "k", "e", "d">>
K_disabled == <<"d", "i", "s", "a", "b", "l", "e", "d">>
K_data == <<"d", "a", "t", "a">>
K_backgroundColor == <<"b", "a", "c", "k", "g", "r", "o", "u", "n", "d", "C", "o", "l", "o", "r">>
K_fontSize == <<"f", "o", "n", "t", "S", "i", "z", "e">>
K_fontFamily == <<"f", "o", "n", "t", "F", "a", "m", "i", "l", "y">>

\* { backgroundColor: 'red', fontSize: '16px' }
StyleRed ==
  Obj(<<<<K_backgroundColor, Str(<<"r", "e", "d">>)>>,
        <<K_fontSize, Str(<<"1", "6", "p", "x">>)>>>>)
\* { fontFamily: '"A&B"', MozTabSize: 4 }
StyleQuoted ==
  Obj(<<<<K_fontFamily, Str(<<"\"", "A", "&", "B", "\"">>)>>,
        <<<<"M", "o", "z", "T", "a", "b", "S", "i", "z", "e">>, Num(4)>>>>)

\* the entries props are made of
AttrEntries ==
  {<<K_children, Str(<<"x">>)>>, <<K_key, Str(<<"k">>)>>, <<K_ref, Str(<<"r">>)>>,
   <<K_className, Str(<<"c", "&">>)>>, <<K_className, Null>>,
   <<K_title, Str(<<"S", "a", "y", " ", "\"", "<", "'", ">", "\"">>)>>,
   <<K_title, Num(-7)>>, <<K_title, Bool(TRUE)>>, <<K_title, Undefined>>,
   <<K_checked, Bool(TRUE)>>, <<K_checked, Bool(FALSE)>>, <<K_checked, Str(<<"o", "n">>)>>,
   <<K_disabled, Bool(TRUE)>>, <<K_disabled, Bool(FALSE)>>, <<K_disabled, Null>>,
   <<K_disabled, Undefined>>,
   <<K_style, StyleRed>>, <<K_style, StyleQuoted>>, <<K_style, Obj(<<>>)>>,
   <<K_style, Str(<<"a", ":", "b">>)>>, <<K_style, Arr(<<Str(<<"x">>)>>)>>,
   <<K_data, StyleRed>>, <<K_data, Arr(<<Str(<<"x">>)>>)>>}

\* a mapping has each key once
AttrProps ==
  {p \in SeqsUpTo(AttrEntries, MaxAttrs) :
     \A i, j \in 1..Len(p) : i # j => p[i][1] # p[j][1]}

InitAttrs ==
  /\ attrIn \in AttrProps
  /\ attrList = <<>>
  /\ attrOut = Undefined
  /\ ctx = "none" /\ text = <<>> /\ node = Undefined /\ rendered = Undefined
  /\ renderLog = <<>>
  /\ StepsIdle
  /\ MailerOff
  /\ FmtIdle

applyRenderAttrs ==
  /\ attrOut = Undefined
  /\ attrList' = attrsOf(attrIn)
  /\ attrOut' = Str(renderAttrs(attrIn))
  /\ UNCHANGED <<attrIn, ctx, text, node, rendered, renderLog, stepVars, mailerVars, fmtVars>>

NextAttrs == applyRenderAttrs

SpecAttrs == InitAttrs /\ [][NextAttrs]_vars

\* an emitted attribute is `name` or `name="value"`: where its name ends
AttrNameEnd(a) ==
  IF \E i \in 1..Len(a) : a[i] = "="
  THEN (CHOOSE i \in 1..Len(a) : a[i] = "=" /\ \A j \in 1..(i - 1) : a[j] # "=") - 1
  ELSE Len(a)
AttrNameOf(a) == SubSeq(a, 1, AttrNameEnd(a))
AttrHasValue(a) == AttrNameEnd(a) < Len(a)
\* what stands after the name
AttrRest(a) == SubSeq(a, AttrNameEnd(a) + 1, Len(a))
\* the name an attribute of this key is emitted under
EmittedName(key) == IF key = K_className THEN K_class ELSE key
\* the entry of the props an emitted attribute comes from
SourceEntry(a) ==
  attrIn[CHOOSE j \in 1..Len(attrIn) : EmittedName(attrIn[j][1]) = AttrNameOf(a)]

\* the kebab-case form of a key, built from its end
RECURSIVE Kebab(_)
Kebab(k) ==
  IF k = <<>> THEN <<>>
  ELSE LET c == k[Len(k)]
       IN Kebab(SubSeq(k, 1, Len(k) - 1))
          \o (IF IsUpper(c)
              THEN <<"-", LowerChars[CHOOSE j \in 1..Len(UpperChars) : UpperChars[j] = c]>>
              ELSE <<c>>)
\* the declarations `kebab-key: value` of the entries of a mapping, joined by "; "
RECURSIVE Declarations(_)
Declarations(es) ==
  IF es = <<>> THEN <<>>
  ELSE LET e == es[Len(es)]
           one == Kebab(e[1]) \o <<":", " ">> \o StringOf(e[2])
       IN IF Len(es) = 1 THEN one
          ELSE Declarations(SubSeq(es, 1, Len(es) - 1)) \o <<";", " ">> \o one
\* the text an attribute's value is made from
RawValue(v) ==
  IF v.t \in {"string", "number"} THEN StringOf(v) ELSE Declarations(ObjectEntries(v))

Entities ==
  {<<"&", "a", "m", "p", ";">>, <<"&", "l", "t", ";">>, <<"&", "g", "t", ";">>,
   <<"&", "q", "u", "o", "t", ";">>, <<"&", "#", "3", "9", ";">>}
\* no raw " < > ' in v, and every & of v begins an entity
NoRawSpecial(v) ==
  \A i \in 1..Len(v) :
    /\ v[i] \notin {"\"", "<", ">", "'"}
    /\ v[i] = "&" =>
         \E ent \in Entities :
           i + Len(ent) - 1 <= Len(v) /\ SubSeq(v, i, i + Len(ent) - 1) = ent

\* C11: every emitted attribute value (of a string or number, and the
\* flattened declarations of a style object) stands between double quotes as
\* the character-by-character entity image of its text, the escaping applied
\* once; so it holds no raw " < > ' and no & that does not begin an entity.
C11_AttrValuesEscapedOnce ==
  attrOut # Undefined =>
    \A i \in 1..Len(attrList) :
      AttrHasValue(attrList[i]) =>
        LET value == CharImage(RawValue(SourceEntry(attrList[i])[2]))
        IN /\ AttrRest(attrList[i]) = <<"=", "\"">> \o value \o <<"\"">>
           /\ NoRawSpecial(value)

\* C11 witness: a title with quotes and angle brackets and a style object with
\* a quoted value have been serialized
C11_Witness ==
  /\ attrIn = <<<<K_title, Str(<<"S", "a", "y", " ", "\"", "<", "'", ">", "\"">>)>>,
                <<K_style, StyleQuoted>>>>
  /\ attrOut = Str(<<" ">> \o K_title
                   \o <<"=", "\"", "S", "a", "y", " ", "&", "q", "u", "o", "t", ";", "&", "l", "t", ";", "&", "#", "3", "9", ";", "&", "g", "t", ";", "&", "q", "u", "o", "t", ";", "\"", " ">>
                   \o K_style
                   \o <<"=", "\"", "f", "o", "n", "t", "-", "f", "a", "m", "i", "l", "y", ":", " ", "&", "q", "u", "o", "t", ";", "A", "&", "a", "m", "p", ";", "B", "&", "q", "u", "o", "t", ";", ";", " ", "-", "m", "o", "z", "-", "t", "a", "b", "-", "s", "i", "z", "e", ":", " ", "4", "\"">>)

-----------------------------------------------------------------------------
(* The renderer on trees of intrinsic elements: SpecTree draws a tree of    *)
(* depth two whose children are leaves of every kind, arrays, elements and  *)
(* a component, and renders it.                                             *)

MaxKids == 2

T_img == <<"i", "m", "g">>

\* jsx(tag, { ...attrEntries, children: kids })
El(tag, attrEntries, kids) ==
  jsx(Str(tag), Obj(attrEntries \o <<<<K_children, Arr(kids)>>>>), Undefined)

Leaves ==
  {Null, Undefined, Bool(TRUE), Bool(FALSE), Num(-7), Num(40), Str(<<"a", "<">>)}
TreeTags == {T_div, T_br}
TreeAttrs == {<<>>, <<<<K_className, Str(<<"c">>)>>, <<K_disabled, Bool(TRUE)>>>>}
\* an array of children with arrays inside arrays
DeepArray ==
  Arr(<<Str(<<"a", "<">>),
        Arr(<<Num(40), Arr(<<El(T_p, <<>>, <<Num(40)>>), Null>>), Num(-7)>>)>>)
\* the children of the root: leaves, nested arrays, elements and a component
SubNodes ==
  {El(tag, <<>>, kids) :
     tag \in {T_p, T_img}, kids \in SeqsUpTo({Str(<<"a", "<">>), Num(40), Null}, 1)}
  \cup {Arr(<<Bool(FALSE), Str(<<"a", "<">>), Num(-7)>>),
        DeepArray,
        jsx(Fn("Inner"), Obj(<<<<K_text, Str(<<"a", "<">>)>>>>), Undefined)}
Trees ==
  {El(tag, a, kids) :
     tag \in TreeTags, a \in TreeAttrs, kids \in SeqsUpTo(Leaves \cup SubNodes, MaxKids)}

InitTree ==
  /\ ctx = "tree"
  /\ text = <<>>
  /\ node \in Trees
  /\ rendered = Undefined
  /\ AttrsIdle
  /\ renderLog = <<>>
  /\ StepsIdle
  /\ MailerOff
  /\ FmtIdle

SpecTree == InitTree /\ [][NextRender]_vars

\* C12: an intrinsic node whose tag is a void element renders as
\* `<tag ATTRS />`, with no closing tag and nothing of its children, whatever
\* children it has; any other intrinsic node renders as
\* `<tag ATTRS>children</tag>`, which is `<tag ATTRS></tag>` without content.
C12_VoidAndNonVoid ==
  (ctx = "tree" /\ rendered # Undefined) =>
    LET tag == node.type.s
        open == <<"<">> \o tag \o renderAttrs(node.props)
        inner == renderChildren(node.children)
    IN IF tag \in VOID_ELEMENTS
       THEN /\ rendered.s = open \o <<" ", "/", ">">>
            /\ rendered.s = render([node EXCEPT !.children = <<>>])
       ELSE /\ rendered.s = open \o <<">">> \o inner \o <<"<", "/">> \o tag \o <<">">>
            /\ inner = <<>> =>
                 rendered.s = open \o <<">", "<", "/">> \o tag \o <<">">>

\* C12 witness: a br given a text and an element as children has been rendered
C12_Witness ==
  /\ ctx = "tree"
  /\ node.type = Str(T_br)
  /\ node.children = <<Str(<<"a", "<">>), El(T_p, <<>>, <<Str(<<"a", "<">>)>>)>>
  /\ rendered = Str(<<"<", "b", "r", " ", "c", "l", "a", "s", "s", "=", "\"", "c", "\"", " ", "d", "i", "s", "a", "b", "l", "e", "d", " ", "/", ">">>)

-----------------------------------------------------------------------------
(* Fragments, checked under SpecRender *)

\* what a tree with a Fragment is to render to: the Fragment's children one
\* after the other, inside whatever encloses the Fragment
FragmentExpected(c, s) ==
  CASE c = "FragmentCall" ->
         CharImage(s) \o <<"<", "b", ">">> \o CharImage(s) \o <<"<", "/", "b", ">">>
    [] c = "FragmentNode" -> CharImage(s)
    [] c = "FragmentChild" ->
         <<"<", "d", "i", "v", ">">> \o CharImage(s) \o <<"0">>
         \o <<"<", "/", "d", "i", "v", ">">>

\* C13: a Fragment contributes exactly the concatenation of its rendered
\* children and no tag of its own, as the root passed to render, as a child
\* of another node, and as a node whose type is the Fragment function.
C13_FragmentNoWrapper ==
  (rendered # Undefined /\ ctx \in {"FragmentCall", "FragmentNode", "FragmentChild"}) =>
    rendered.s = FragmentExpected(ctx, text)

-----------------------------------------------------------------------------
(* Properties of renderAttrs, checked under SpecAttrs *)

\* the attributes each after a single space, built from the last one
RECURSIVE SpaceBeforeEach(_)
SpaceBeforeEach(as) ==
  IF as = <<>> THEN <<>>
  ELSE SpaceBeforeEach(SubSeq(as, 1, Len(as) - 1)) \o <<" ">> \o as[Len(as)]

\* the entries of the props that can never give an attribute
Excluded(e) ==
  \/ e[1] \in {K_children, K_key, K_ref}
  \/ e[2] \in {Bool(FALSE), Null, Undefined}

\* C14: renderAttrs emits no attribute for the keys children, key and ref nor
\* for a key whose value is false, null or undefined; className is emitted
\* under the name class; the result is the empty string when no attribute
\* survives and otherwise the survivors, each after one space.
C14_AttrFiltering ==
  attrOut # Undefined =>
    /\ \A j \in 1..Len(attrIn) :
         Excluded(attrIn[j]) =>
           \A i \in 1..Len(attrList) : AttrNameOf(attrList[i]) # EmittedName(attrIn[j][1])
    /\ \A i \in 1..Len(attrList) :
         /\ AttrNameOf(attrList[i]) \notin {K_children, K_key, K_ref, K_className}
         /\ \E j \in 1..Len(attrIn) :
              ~Excluded(attrIn[j]) /\ EmittedName(attrIn[j][1]) = AttrNameOf(attrList[i])
    /\ \A j \in 1..Len(attrIn) :
         (attrIn[j][1] = K_className /\ attrIn[j][2].t = "string") =>
           \E i \in 1..Len(attrList) : AttrNameOf(attrList[i]) = K_class
    /\ attrList = <<>> => attrOut = Str(<<>>)
    /\ attrOut = Str(SpaceBeforeEach(attrList))

\* C14 witness: of a ref, a className and a false disabled only the class is
\* left
C14_Witness ==
  /\ attrIn = <<<<K_ref, Str(<<"r">>)>>, <<K_className, Str(<<"c", "&">>)>>,
                <<K_disabled, Bool(FALSE)>>>>
  /\ attrOut = Str(<<" ", "c", "l", "a", "s", "s", "=", "\"", "c", "&", "a", "m", "p", ";", "\"">>)


\* the attributes emitted as a bare name
BareAttrs == {i \in 1..Len(attrList) : ~AttrHasValue(attrList[i])}
\* the entries that set a boolean attribute to true
TrueBooleans ==
  {j \in 1..Len(attrIn) : EmittedName(attrIn[j][1]) \in BOOLEAN_ATTRS /\ attrIn[j][2] = Bool(TRUE)}

\* C15: for an attribute of the boolean-attribute set the value true emits
\* the bare name, without `="..."`, and the values false, null and undefined
\* emit nothing; so the bare names emitted are as many as the boolean
\* attributes set to true.
C15_BooleanAttrs ==
  attrOut # Undefined =>
    /\ \A j \in 1..Len(attrIn) :
         EmittedName(attrIn[j][1]) \in BOOLEAN_ATTRS =>
           /\ attrIn[j][2] = Bool(TRUE) =>
                /\ \E i \in 1..Len(attrList) : attrList[i] = attrIn[j][1]
                /\ \A i \in 1..Len(attrList) :
                     AttrNameOf(attrList[i]) = attrIn[j][1] => attrList[i] = attrIn[j][1]
           /\ attrIn[j][2] \in {Bool(FALSE), Null, Undefined} =>
                \A i \in 1..Len(attrList) : AttrNameOf(attrList[i]) # attrIn[j][1]
    /\ Cardinality(BareAttrs) = Cardinality(TrueBooleans)

\* C15 witness: checked: true, disabled: false has given the one attribute
\* checked
C15_Witness ==
  /\ attrIn = <<<<K_checked, Bool(TRUE)>>, <<K_disabled, Bool(FALSE)>>>>
  /\ attrList = <<K_checked>>
  /\ attrOut = Str(<<" ">> \o K_checked)


\* C16: a mapping under the key style is emitted as one style attribute whose
\* value is its entries in insertion order, each written `kebab-key: value`
\* (a `-` before every uppercase letter, all lowercased), joined by "; " (and
\* escaped as every attribute value is); an object-typed value under any
\* other key emits no attribute.
C16_StyleObjects ==
  attrOut # Undefined =>
    \A j \in 1..Len(attrIn) :
      /\ (attrIn[j][1] = K_style /\ attrIn[j][2].t = "object") =>
           /\ Cardinality({i \in 1..Len(attrList) : AttrNameOf(attrList[i]) = K_style}) = 1
           /\ \E i \in 1..Len(attrList) :
                attrList[i] =
                  K_style \o <<"=", "\"">>
                  \o CharImage(Declarations(attrIn[j][2].entries)) \o <<"\"">>
      /\ (attrIn[j][1] # K_style /\ attrIn[j][2].t \in {"object", "array"}) =>
           \A i \in 1..Len(attrList) : AttrNameOf(attrList[i]) # EmittedName(attrIn[j][1])

\* C16 witness: a style object and the same object under another key have
\* given the one attribute style
C16_Witness ==
  /\ attrIn = <<<<K_data, StyleRed>>, <<K_style, StyleRed>>>>
  /\ attrOut = Str(<<" ", "s", "t", "y", "l", "e", "=", "\"", "b", "a", "c", "k", "g", "r", "o", "u", "n", "d", "-", "c", "o", "l", "o", "r", ":", " ", "r", "e", "d", ";", " ", "f", "o", "n", "t", "-", "s", "i", "z", "e", ":", " ", "1", "6", "p", "x", "\"">>)


\* the place in the props of the entry an emitted attribute comes from
SourceIndex(a) ==
  CHOOSE j \in 1..Len(attrIn) : EmittedName(attrIn[j][1]) = AttrNameOf(a)

\* C17: the emitted attributes stand in the relative order in which their
\* keys were inserted into the props: filtering removes attributes and never
\* reorders the ones that are left.
C17_AttrOrder ==
  attrOut # Undefined =>
    /\ \A i \in 1..Len(attrList) :
         \E j \in 1..Len(attrIn) : EmittedName(attrIn[j][1]) = AttrNameOf(attrList[i])
    /\ \A i, k \in 1..Len(attrList) :
         i < k => SourceIndex(attrList[i]) < SourceIndex(attrList[k])
    /\ attrOut = Str(SpaceBeforeEach(attrList))

\* C17 witness: two attributes with a filtered entry between them have come
\* out in their order
C17_Witness ==
  /\ attrIn = <<<<K_checked, Bool(TRUE)>>, <<K_children, Str(<<"x">>)>>, <<K_title, Num(-7)>>>>
  /\ attrOut = Str(<<" ">> \o K_checked \o <<" ">> \o K_title \o <<"=", "\"", "-", "7", "\"">>)

-----------------------------------------------------------------------------
(* Children that render to nothing, checked under SpecTree *)

Vanishing(child) == child \in {Null, Undefined, Bool(TRUE), Bool(FALSE)}

\* the children without the null, undefined and boolean ones, at every depth
RECURSIVE PruneKids(_)
PruneKids(kids) ==
  IF kids = <<>> THEN <<>>
  ELSE LET c == Head(kids)
           rest == PruneKids(Tail(kids))
       IN IF Vanishing(c) THEN rest
          ELSE IF c.t = "array" THEN <<Arr(PruneKids(c.items))>> \o rest
          ELSE IF c.t = "vnode" THEN <<[c EXCEPT !.children = PruneKids(c.children)]>> \o rest
          ELSE <<c>> \o rest

\* the decimal strings of the numbers of the trees
DecimalOf(n) ==
  CASE n = -7 -> <<"-", "7">>
    [] n = 0 -> <<"0">>
    [] n = 40 -> <<"4", "0">>

\* what a leaf contributes
LeafText(child) ==
  IF Vanishing(child) THEN <<>>
  ELSE IF child.t = "number" THEN DecimalOf(child.n)
  ELSE CharImage(child.s)

RECURSIVE LeafTexts(_)
LeafTexts(kids) ==
  IF kids = <<>> THEN <<>> ELSE LeafText(Head(kids)) \o LeafTexts(Tail(kids))

\* C18: a null, undefined, true or false child contributes the empty string
\* and a numeric child its decimal string; removing all null, undefined and
\* boolean children from a tree does not change its rendering.
C18_VanishingChildren ==
  (ctx = "tree" /\ rendered # Undefined) =>
    /\ rendered.s = render([node EXCEPT !.children = PruneKids(node.children)])
    /\ (node.type = Str(T_div) /\ \A i \in 1..Len(node.children) : node.children[i] \in Leaves) =>
         rendered.s =
           <<"<", "d", "i", "v">> \o renderAttrs(node.props) \o <<">">>
           \o LeafTexts(node.children) \o <<"<", "/", "d", "i", "v", ">">>

\* C18 witness: a div with the children true and 40 has rendered to its number
C18_Witness ==
  /\ ctx = "tree"
  /\ node = El(T_div, <<>>, <<Bool(TRUE), Num(40)>>)
  /\ rendered = Str(<<"<", "d", "i", "v", ">", "4", "0", "<", "/", "d", "i", "v", ">">>)

-----------------------------------------------------------------------------
(* compile on its own: SpecCompile constructs a mailer and calls compile    *)
(* with templates whose bodies do and do not hold html tags.                *)

MaxBodyKids == 2

T_html == <<"h", "t", "m", "l">>
T_HTML == <<"H", "T", "M", "L">>
T_Html == <<"H", "t", "m", "l">>
T_body == <<"b", "o", "d", "y">>
K_lang == <<"l", "a", "n", "g">>
S_Hi == Str(<<"H", "i">>)

\* what the bodies are made of: texts, one of them the text "<html>", a body
\* element and html elements
BodyKids ==
  {S_Hi, Str(<<"<", "h", "t", "m", "l", ">">>), El(T_body, <<>>, <<S_Hi>>),
   El(T_html, <<>>, <<>>), El(T_Html, <<>>, <<S_Hi>>)}
Bodies ==
  {El(tag, a, kids) :
     tag \in {T_p, T_html, T_HTML},
     a \in {<<>>, <<<<K_lang, Str(<<"e", "n">>)>>>>},
     kids \in SeqsUpTo(BodyKids, MaxBodyKids)}
\* what template(props) returns: a VNode, a TemplateResult with that body, the
\* results the send calls are made with (with and without meta), or null
CompileTemplates ==
  Bodies \cup {[t |-> "object", body |-> b] : b \in Bodies} \cup Templates \cup {Null}

\* compile(template, props) returns { html, text, meta }
compileCall(tpl) ==
  /\ pc = "idle"
  /\ pc' = "returned"
  /\ op' = "compile"
  /\ reply' = Undefined
  /\ template' = tpl
  /\ options' = Undefined
  /\ locals' = [result |-> tpl]
  /\ sent' = <<>>
  /\ outcome' = [kind |-> "return", value |-> compile(tpl)]
  /\ UNCHANGED <<config, parked, fmtVars, renderVars>>

NextCompile ==
  \/ pc = "idle" /\ \E tpl \in CompileTemplates : compileCall(tpl)
  \/ callEnds

SpecCompile == Init /\ [][NextCompile]_vars

\* the body compile renders, and what it renders to
CompiledBody == IF "body" \in DOMAIN template THEN template.body ELSE template
Compiled == op = "compile" /\ pc = "returned"

\* <html in any letter case somewhere in s
HasHtmlAnyCase(s) ==
  \E i \in 1..(Len(s) - 4) :
    /\ s[i] = "<"
    /\ s[i + 1] \in {"h", "H"}
    /\ s[i + 2] \in {"t", "T"}
    /\ s[i + 3] \in {"m", "M"}
    /\ s[i + 4] \in {"l", "L"}

\* C19: the html of compile begins with `<!DOCTYPE html>` and a newline; if
\* the rendered body holds `<html` in any letter case the rest is the
\* rendered body as it is, and otherwise the rendered body inside the
\* html/head/body boilerplate.
C19_DoctypeAndWrap ==
  Compiled =>
    LET html == outcome.value.html
        body == render(CompiledBody)
        rest == SubSeq(html, 17, Len(html))
    IN /\ Len(html) >= 16
       /\ SubSeq(html, 1, 16) = <<"<", "!", "D", "O", "C", "T", "Y", "P", "E", " ", "h", "t", "m", "l", ">", "\n">>
       /\ IF HasHtmlAnyCase(body) THEN rest = body
          ELSE rest = WRAP_HEAD \o body \o WRAP_TAIL

\* C19 witness: a body whose html tag is in capitals has been compiled and is
\* not wrapped
C19_Witness ==
  /\ Compiled
  /\ template = El(T_HTML, <<>>, <<S_Hi>>)
  /\ outcome.value.html = <<"<", "!", "D", "O", "C", "T", "Y", "P", "E", " ", "h", "t", "m", "l", ">", "\n", "<", "H", "T", "M", "L", ">", "H", "i", "<", "/", "H", "T", "M", "L", ">">>


\* how many times sub occurs in s
CountOf(s, sub) ==
  Cardinality({i \in 0..(Len(s) - Len(sub)) : SubSeq(s, i + 1, i + Len(sub)) = sub})

S_ltHtml == <<"<", "h", "t", "m", "l">>
S_ltHtmlGt == <<"<", "h", "t", "m", "l", ">">>

\* C20 as claimed: for a body without an html tag the output holds exactly
\* one `<html>`, and for every body that already holds `<html` the output
\* holds exactly one occurrence of `<html`.
C20_ExactlyOneHtml ==
  Compiled =>
    LET html == outcome.value.html
        body == render(CompiledBody)
    IN /\ ~HasHtmlAnyCase(body) => CountOf(html, S_ltHtmlGt) = 1
       /\ Includes(body, S_ltHtml) => CountOf(html, S_ltHtml) = 1

\* C20, amended: for a body without `<html` in any letter case the output
\* holds exactly one `<html>`, the synthesized one; for a body that holds
\* `<html` in some letter case the output holds the body's occurrences of
\* `<html` and none more, so exactly one when the body holds one.
C20_NoDoubleWrap ==
  Compiled =>
    LET html == outcome.value.html
        body == render(CompiledBody)
    IN /\ ~HasHtmlAnyCase(body) =>
            CountOf(html, S_ltHtmlGt) = 1 /\ CountOf(html, S_ltHtml) = 1
       /\ HasHtmlAnyCase(body) =>
            /\ CountOf(html, S_ltHtml) = CountOf(body, S_ltHtml)
            /\ CountOf(html, S_ltHtmlGt) = CountOf(body, S_ltHtmlGt)
            /\ CountOf(body, S_ltHtml) = 1 => CountOf(html, S_ltHtml) = 1

\* C20 witness: a body that is an html element around a body element has been
\* compiled, and the output holds `<html` once
C20_Witness ==
  /\ Compiled
  /\ template = El(T_html, <<>>, <<El(T_body, <<>>, <<S_Hi>>)>>)
  /\ CountOf(outcome.value.html, S_ltHtml) = 1
  /\ outcome.value.html =
       DOCTYPE \o <<"<", "h", "t", "m", "l", ">", "<", "b", "o", "d", "y", ">", "H", "i", "<", "/", "b", "o", "d", "y", ">", "<", "/", "h", "t", "m", "l", ">">>

-----------------------------------------------------------------------------
(* The result of the template, checked under SpecCompile *)

\* the template's result is an object, not null, that has a body key
ResultHasBody == template.t \notin {"null", "undefined"} /\ "body" \in DOMAIN template

\* C21: compile takes the template's result for a TemplateResult exactly when
\* it is a non-null object with a body key, with or without meta: it then
\* renders result.body and returns result.meta as meta; any other result (a
\* bare node, null) is rendered itself and no meta is returned.
C21_TemplateResultOrNode ==
  Compiled =>
    IF ResultHasBody
    THEN /\ outcome.value.html = renderHtml(template.body)
         /\ outcome.value.meta =
              (IF "meta" \in DOMAIN template THEN template.meta ELSE Undefined)
    ELSE /\ outcome.value.html = renderHtml(template)
         /\ outcome.value.meta = Undefined

\* C21 witness: a result with a body and a meta has been compiled: the body is
\* rendered and the meta handed back
C21_Witness ==
  /\ Compiled
  /\ template = [t |-> "object", body |-> BodyP,
                 meta |-> [t |-> "object", subject |-> Str(<<"T">>),
                           from |-> Str(<<"m", "@", "x">>), replyTo |-> Undefined]]
  /\ outcome.value.meta = template.meta
  /\ outcome.value.html = DOCTYPE \o WRAP_HEAD \o <<"<", "p", ">", "T", "e", "s", "t", "<", "/", "p", ">">> \o WRAP_TAIL

-----------------------------------------------------------------------------
(* verify and the transport's answers, checked under Spec *)

\* C22: verify never fails: it returns true when the transport's verify
\* completes and false when it fails, and no error comes out of verify.
C22_VerifyNeverFails ==
  op = "verify" =>
    /\ pc # "thrown"
    /\ reply # Undefined =>
         /\ pc = "returned"
         /\ outcome = [kind |-> "return", value |-> Bool(reply.kind = "fulfilled")]

\* C22 witness: the transport's verify has failed and verify has returned false
C22_Witness ==
  /\ op = "verify"
  /\ pc = "returned"
  /\ reply = [kind |-> "rejected",
              error |-> <<"E", "C", "O", "N", "N", "R", "E", "F", "U", "S", "E", "D">>]
  /\ outcome = [kind |-> "return", value |-> Bool(FALSE)]


\* C23: a send or sendRaw call hands a message to sendMail at most once; when
\* sendMail fails the call fails with that same error and nothing is handed
\* over again, and when it succeeds the call returns the transport's
\* messageId, accepted and rejected as they are.
C23_AtMostOnce ==
  op \in {"send", "sendRaw"} =>
    /\ Len(sent) <= 1
    /\ reply # Undefined =>
         /\ Len(sent) = 1
         /\ reply.kind = "rejected" =>
              pc = "thrown" /\ outcome = [kind |-> "throw", error |-> reply.error]
         /\ reply.kind = "fulfilled" =>
              /\ pc = "returned"
              /\ outcome.kind = "return"
              /\ outcome.value.messageId = reply.value.messageId
              /\ outcome.value.accepted = reply.value.accepted
              /\ outcome.value.rejected = reply.value.rejected

\* C23 witness: sendMail has failed for a sendRaw call, which has handed over
\* one message and has failed with the transport's error
C23_Witness ==
  /\ op = "sendRaw"
  /\ pc = "thrown"
  /\ Len(sent) = 1
  /\ reply.kind = "rejected"
  /\ outcome.error = <<"C", "o", "n", "n", "e", "c", "t", "i", "o", "n", " ", "f", "a", "i", "l", "e", "d">>
  /\ outcome.error = reply.error


\* C24: sendRaw hands the transport the caller's html unchanged, the caller's
\* text when one is supplied and otherwise the plain text converted from that
\* html, and a from that is the formatted options.from if supplied and else
\* the formatted config.defaultFrom.  As for C5 the claim is stated under
\* both readings of "supplied": text and from are each to agree with one.
C24_SendRawDescriptor ==
  (op = "sendRaw" /\ Handed) =>
    /\ sent[1].html = options.html
    /\ \/ sent[1].text = (IF Supplied(options.text) THEN options.text
                          ELSE renderText(options.html.s))
       \/ sent[1].text = (IF SuppliedNonEmpty(options.text) THEN options.text
                          ELSE renderText(options.html.s))
    /\ \/ sent[1].from =
            FormattedAddress(FirstOf3(Supplied, options.from, Undefined, config.defaultFrom))
       \/ sent[1].from =
            FormattedAddress(FirstOf3(SuppliedNonEmpty, options.from, Undefined,
                                      config.defaultFrom))


-----------------------------------------------------------------------------
(* Repeated rendering: SpecRepeat renders trees one after the other on one  *)
(* mailer, between and during compile and send calls, and keeps every       *)
(* render's argument and result.                                            *)

MaxRenders == 3

\* a div with two attributes in either insertion order, components, nested
\* children and a Fragment
RepeatTrees ==
  {El(T_div, <<<<K_className, Str(<<"c">>)>>, <<K_title, Str(<<"t">>)>>>>, <<Str(<<"x">>)>>),
   El(T_div, <<<<K_title, Str(<<"t">>)>>, <<K_className, Str(<<"c">>)>>>>, <<Str(<<"x">>)>>),
   TreeOf("Outer", <<"a", "&">>),
   TreeOf("deep", <<"<">>),
   TreeOf("FragmentCall", <<"a">>)}

RepeatTemplates == {BodyP, [t |-> "object", body |-> BodyHtml]}
RepeatOptions ==
  {[to |-> Str(<<"t", "@", "x">>), cc |-> Undefined, bcc |-> Undefined,
    subject |-> Str(<<"H", "i">>), from |-> Undefined, replyTo |-> Undefined]}

\* a renderer that numbers its outputs with a counter kept between calls
renderCall_Counter(n) ==
  /\ Len(renderLog) < MaxRenders
  /\ ctx' = "repeat"
  /\ node' = n
  /\ rendered' = Str(render(n) \o NumberToString(Len(renderLog)))
  /\ renderLog' = Append(renderLog, [node |-> n, out |-> render(n) \o NumberToString(Len(renderLog))])
  /\ UNCHANGED <<text, attrVars, stepVars, mailerVars, fmtVars>>

\* render(n), called at any moment: render is synchronous and reads nothing
\* but its argument
renderCall(n) ==
  /\ Len(renderLog) < MaxRenders
  /\ ctx' = "repeat"
  /\ node' = n
  /\ rendered' = Str(render(n))
  /\ renderLog' = Append(renderLog, [node |-> n, out |-> render(n)])
  /\ UNCHANGED <<text, attrVars, stepVars, mailerVars, fmtVars>>

NextRepeat ==
  \/ \E n \in RepeatTrees : renderCall(n)
  \/ pc = "idle" /\ \E tpl \in RepeatTemplates : compileCall(tpl)
  \/ pc = "idle" /\ \E tpl \in RepeatTemplates, opts \in RepeatOptions : send(tpl, opts)
  \/ \E info \in SendInfos : sendMailFulfilled(info)
  \/ \E err \in TransportErrors : sendMailRejected(err)
  \/ callEnds

SpecRepeat == Init /\ [][NextRepeat]_vars

-----------------------------------------------------------------------------
(* Flattening of children, checked under SpecTree *)

\* the leaves and nodes of a children list in left-to-right order, every
\* array replaced by its items, however deep
RECURSIVE Flat(_)
Flat(kids) ==
  IF kids = <<>> THEN <<>>
  ELSE (IF Head(kids).t = "array" THEN Flat(Head(kids).items) ELSE <<Head(kids)>>)
       \o Flat(Tail(kids))

\* C26: nested sequences of children are flattened preserving left-to-right
\* order: a tree whose children list contains arrays, however deeply nested,
\* renders to the same string as the tree whose children are the leaves and
\* nodes of those arrays in left-to-right order.
C26_NestedArraysFlattened ==
  (ctx = "tree" /\ rendered # Undefined) =>
    /\ \A i \in 1..Len(Flat(node.children)) : Flat(node.children)[i].t # "array"
    /\ rendered.s = render([node EXCEPT !.children = Flat(node.children)])

\* C26 witness: a div whose first child is an array three levels deep has
\* been rendered with the array's leaves and node in their order
C26_Witness ==
  /\ ctx = "tree"
  /\ node.type = Str(T_div)
  /\ node.children = <<DeepArray, Bool(TRUE)>>
  /\ Flat(node.children) = <<Str(<<"a", "<">>), Num(40), El(T_p, <<>>, <<Num(40)>>), Null, Num(-7), Bool(TRUE)>>
  /\ rendered = Str(<<"<", "d", "i", "v", ">", "a", "&", "l", "t", ";", "4", "0", "<", "p", ">", "4", "0", "<", "/", "p", ">", "-", "7", "<", "/", "d", "i", "v", ">">>)


-----------------------------------------------------------------------------
(* Rendering step by step: SpecSteps runs one render call as the sequence   *)
(* of the calls its recursion makes.  work is the rest of the recursion,    *)
(* the next item first: a child still to go through the callback of         *)
(* renderChildren, a value still to go through renderToString, or the part  *)
(* of an element's string that comes after its children.  The children of   *)
(* a void element are rendered and their string is dropped: their items     *)
(* are mute.                                                                *)

MaxStepKids == 2

ChildItem(v, m) == [k |-> "child", v |-> v, mute |-> m]
NodeItem(v, m) == [k |-> "node", v |-> v, mute |-> m]
LitItem(s) == [k |-> "lit", s |-> s]
ChildItems(items, m) == [i \in 1..Len(items) |-> ChildItem(items[i], m)]

\* a step that takes a component node for the value its function returns
stepOf_Loop(it) ==
  IF it.k = "lit" THEN [push |-> <<>>, emit |-> it.s, call |-> <<>>]
  ELSE
    LET v == it.v
        said(s) == IF it.mute THEN <<>> ELSE s
        closing(s) == IF it.mute THEN <<>> ELSE <<LitItem(s)>>
    IN IF v = Null \/ v = Undefined THEN [push |-> <<>>, emit |-> <<>>, call |-> <<>>]
       ELSE IF it.k = "child" /\ (v = Bool(FALSE) \/ v = Bool(TRUE))
         THEN [push |-> <<>>, emit |-> <<>>, call |-> <<>>]
       ELSE IF TypeOf(v) = "string"
         THEN [push |-> <<>>, emit |-> said(escapeHtml(v.s)), call |-> <<>>]
       ELSE IF TypeOf(v) = "number"
         THEN [push |-> <<>>,
               emit |-> said(IF it.k = "child" THEN NumberToString(v.n)
                             ELSE escapeHtml(StringOf(v))),
               call |-> <<>>]
       ELSE IF it.k = "child" /\ v.t = "array"
         THEN [push |-> ChildItems(v.items, it.mute), emit |-> <<>>, call |-> <<>>]
       ELSE IF TypeOf(v.type) = "function"
         THEN [push |-> <<it>>, emit |-> <<>>, call |-> <<>>]
       ELSE IF v.type.s \in VOID_ELEMENTS
         THEN [push |-> ChildItems(v.children, TRUE)
                        \o closing(<<"<">> \o v.type.s \o renderAttrs(v.props) \o <<" ", "/", ">">>),
               emit |-> <<>>,
               call |-> <<>>]
       ELSE [push |-> ChildItems(v.children, it.mute)
                      \o closing(<<"<", "/">> \o v.type.s \o <<">">>),
             emit |-> said(<<"<">> \o v.type.s \o renderAttrs(v.props) \o <<">">>),
             call |-> <<>>]

\* one call of the recursion: the items it puts in the place of the item it
\* takes, the string it contributes, and the component function it calls
stepOf(it) ==
  IF it.k = "lit" THEN [push |-> <<>>, emit |-> it.s, call |-> <<>>]
  ELSE
    LET v == it.v
        said(s) == IF it.mute THEN <<>> ELSE s
        closing(s) == IF it.mute THEN <<>> ELSE <<LitItem(s)>>
    IN IF v = Null \/ v = Undefined THEN [push |-> <<>>, emit |-> <<>>, call |-> <<>>]
       ELSE IF it.k = "child" /\ (v = Bool(FALSE) \/ v = Bool(TRUE))
         THEN [push |-> <<>>, emit |-> <<>>, call |-> <<>>]
       ELSE IF TypeOf(v) = "string"
         THEN [push |-> <<>>, emit |-> said(escapeHtml(v.s)), call |-> <<>>]
       ELSE IF TypeOf(v) = "number"
         THEN [push |-> <<>>,
               emit |-> said(IF it.k = "child" THEN NumberToString(v.n)
                             ELSE escapeHtml(StringOf(v))),
               call |-> <<>>]
       ELSE IF it.k = "child" /\ v.t = "array"
         THEN [push |-> ChildItems(v.items, it.mute), emit |-> <<>>, call |-> <<>>]
       ELSE IF TypeOf(v.type) = "function"
         THEN [push |-> <<NodeItem(applyComponent(v.type,
                                                  SetProp(v.props, K_children, Arr(v.children))),
                                   it.mute)>>,
               emit |-> <<>>,
               call |-> <<v.type.name>>]
       ELSE IF v.type.s \in VOID_ELEMENTS
         THEN [push |-> ChildItems(v.children, TRUE)
                        \o closing(<<"<">> \o v.type.s \o renderAttrs(v.props) \o <<" ", "/", ">">>),
               emit |-> <<>>,
               call |-> <<>>]
       ELSE [push |-> ChildItems(v.children, it.mute)
                      \o closing(<<"<", "/">> \o v.type.s \o <<">">>),
             emit |-> said(<<"<">> \o v.type.s \o renderAttrs(v.props) \o <<">">>),
             call |-> <<>>]

\* render(n) at its entry: the children of a node of type 'fragment', or n
workOfRender(n) ==
  IF Truthy(n) /\ TypeOf(n) = "object" /\ n.type = Str(T_fragment)
  THEN ChildItems(n.children, FALSE)
  ELSE <<NodeItem(n, FALSE)>>

\* the trees rendered step by step: the trees of SpecRender with short
\* texts, and elements whose children are components, an array holding a
\* component, and a text
StepTexts == {<<>>, <<"&">>}
StepContexts == Contexts \ {"Greeting"}
ComponentNodes ==
  {jsx(Fn("Inner"), Obj(<<<<K_text, Str(<<"i">>)>>>>), Undefined),
   jsx(Fn("Outer"), Obj(<<<<K_text, Str(<<"o">>)>>>>), Undefined),
   jsx(Fn("Fragment"), Obj(<<<<K_children, Arr(<<Str(<<"f">>), jsx(Fn("Inner"), Obj(<<<<K_text, Str(<<"j">>)>>>>), Undefined)>>)>>>>), Undefined)}
StepKids ==
  ComponentNodes
  \cup {Str(<<"<">>),
        Arr(<<jsx(Fn("Inner"), Obj(<<<<K_text, Str(<<"h">>)>>>>), Undefined), Num(4)>>)}
StepTrees ==
  {TreeOf(c, s) : c \in StepContexts, s \in StepTexts}
  \cup {El(tag, <<>>, kids) : tag \in {T_div, T_br}, kids \in SeqsUpTo(StepKids, MaxStepKids)}

InitSteps ==
  /\ ctx = "steps"
  /\ text = <<>>
  /\ node \in StepTrees
  /\ rendered = Undefined
  /\ work = workOfRender(node)
  /\ emitted = <<>>
  /\ invoked = <<>>
  /\ renderLog = <<>>
  /\ AttrsIdle
  /\ MailerOff
  /\ FmtIdle

\* the recursion makes its next call
renderStep ==
  /\ rendered = Undefined
  /\ work # <<>>
  /\ \E r \in {stepOf(Head(work))} :
       /\ work' = r.push \o Tail(work)
       /\ emitted' = emitted \o r.emit
       /\ invoked' = invoked \o r.call
  /\ UNCHANGED <<ctx, text, node, rendered, renderLog, attrVars, mailerVars, fmtVars>>

\* nothing is left: render returns the string
renderReturns ==
  /\ rendered = Undefined
  /\ work = <<>>
  /\ rendered' = Str(emitted)
  /\ UNCHANGED <<ctx, text, node, renderLog, stepVars, attrVars, mailerVars, fmtVars>>

NextSteps == renderStep \/ renderReturns

SpecSteps == InitSteps /\ [][NextSteps]_vars

\* render is synchronous: once called, it runs until it returns
SpecStepsFair == SpecSteps /\ WF_vars(renderStep) /\ WF_vars(renderReturns)

\* the component functions a rendering calls, depth-first and left to right:
\* a component node calls its function and then what the returned value
\* calls; an element calls what its children call, first child first
RECURSIVE CallsOf(_)
CallsOfAll(items) ==
  IF items = <<>> THEN <<>>
  ELSE LET n == Len(items)
           F[i \in 0..n] == IF i = 0 THEN <<>> ELSE F[i - 1] \o CallsOf(items[i])
       IN F[n]
CallsOf(v) ==
  IF v.t = "array" THEN CallsOfAll(v.items)
  ELSE IF v.t # "vnode" THEN <<>>
  ELSE IF TypeOf(v.type) = "function"
    THEN <<v.type.name>>
         \o CallsOf(applyComponent(v.type, SetProp(v.props, K_children, Arr(v.children))))
  ELSE CallsOfAll(v.children)

\* the value a component node's function returns for the node's props merged
\* with its children
ReturnedBy(n) == applyComponent(n.type, SetProp(n.props, K_children, Arr(n.children)))

IsComponentNode(n) == n.t = "vnode" /\ TypeOf(n.type) = "function"

\* C27: render terminates for every tree, and when it has returned, the
\* string is the rendering of the tree, a component node at the root has
\* rendered as the rendering of the value its function returns for its props
\* merged with its children, and the component functions were called once
\* each in depth-first, left-to-right order.
C27_ComponentsRenderAndTerminate ==
  /\ [](rendered # Undefined =>
          /\ work = <<>>
          /\ rendered.s = render(node)
          /\ IsComponentNode(node) => rendered.s = renderToString(ReturnedBy(node))
          /\ invoked = CallsOf(node))
  /\ <>(rendered # Undefined)

\* C27 witness: a div whose children are the nested component Outer and an
\* array holding the component Inner has been rendered step by step
C27_Witness ==
  /\ ctx = "steps"
  /\ node.t = "vnode"
  /\ node.type = Str(T_div)
  /\ Len(node.children) = 2
  /\ IsComponentNode(node.children[1]) /\ node.children[1].type.name = "Outer"
  /\ node.children[2].t = "array"
  /\ invoked = <<"Outer", "Inner", "Inner">>
  /\ rendered = Str(<<"<", "d", "i", "v", ">", "<", "d", "i", "v", ">", "<", "s", "p", "a", "n", ">", "o", "<", "/", "s", "p", "a", "n", ">", "<", "/", "d", "i", "v", ">", "<", "s", "p", "a", "n", ">", "h", "<", "/", "s", "p", "a", "n", ">", "4", "<", "/", "d", "i", "v", ">">>)


-----------------------------------------------------------------------------
(* The `<html` detection and text, checked under SpecCompile *)

\* some text leaf of the tree holds the characters `<html`
RECURSIVE HtmlInText(_)
HtmlInText(v) ==
  CASE v.t = "string" -> Includes(v.s, S_ltHtml)
    [] v.t = "array" -> \E i \in 1..Len(v.items) : HtmlInText(v.items[i])
    [] v.t = "vnode" -> \E i \in 1..Len(v.children) : HtmlInText(v.children[i])
    [] OTHER -> FALSE

\* some element of the tree has a tag that begins with html, in any letter case
RECURSIVE HtmlElementIn(_)
HtmlElementIn(v) ==
  CASE v.t = "array" -> \E i \in 1..Len(v.items) : HtmlElementIn(v.items[i])
    [] v.t = "vnode" ->
         \/ TypeOf(v.type) = "string" /\ HasHtmlAnyCase(<<"<">> \o v.type.s)
         \/ \E i \in 1..Len(v.children) : HtmlElementIn(v.children[i])
    [] OTHER -> FALSE

\* a body whose root is an element other than html with `<html` in a text leaf
TextMentionsHtml ==
  /\ Compiled
  /\ CompiledBody.t = "vnode"
  /\ TypeOf(CompiledBody.type) = "string"
  /\ ~HasHtmlAnyCase(<<"<">> \o CompiledBody.type.s)
  /\ HtmlInText(CompiledBody)

-----------------------------------------------------------------------------
(* Attribute names: SpecAttrNames draws props mappings (unique keys) that   *)
(* may hold both of the keys class and className, and applies renderAttrs.  *)

NameEntries ==
  {<<k, v>> : k \in {K_class, K_className, K_title, K_disabled},
              v \in {Str(<<"a">>), Str(<<"b">>), Bool(TRUE), Null}}
NameProps ==
  {p \in SeqsUpTo(NameEntries, MaxAttrs) :
     \A i, j \in 1..Len(p) : i # j => p[i][1] # p[j][1]}

InitAttrNames ==
  /\ attrIn \in NameProps
  /\ attrList = <<>>
  /\ attrOut = Undefined
  /\ ctx = "none" /\ text = <<>> /\ node = Undefined /\ rendered = Undefined
  /\ renderLog = <<>>
  /\ StepsIdle
  /\ MailerOff
  /\ FmtIdle

SpecAttrNames == InitAttrNames /\ [][NextAttrs]_vars

\* C30: for every props mapping, whose keys are unique, the attributes
\* renderAttrs emits for an element never hold the same attribute name twice.
C30_NoDuplicateNames ==
  attrOut # Undefined =>
    /\ attrOut.s = SpaceBeforeEach(attrList)
    /\ \A i, j \in 1..Len(attrList) :
         i # j => AttrNameOf(attrList[i]) # AttrNameOf(attrList[j])


-----------------------------------------------------------------------------
(* Concurrent calls on one mailer: SpecConcurrent lets a call that has      *)
(* reached its await be suspended while other calls are started, and be     *)
(* resumed when the transport answers it.  JavaScript runs one call at a    *)
(* time up to its await or its return; the suspended calls keep their own   *)
(* arguments and local constants, and all calls share the mailer's config.  *)

MaxParked == 2

\* the call in flight, as it is kept while suspended
Frame ==
  [pc |-> pc, op |-> op, template |-> template, options |-> options,
   locals |-> locals, sent |-> sent]

\* the call in flight reaches its await and gives up the thread
suspend ==
  /\ pc \in {"awaitSendMail", "awaitVerify"}
  /\ Len(parked) < MaxParked
  /\ parked' = Append(parked, Frame)
  /\ pc' = "idle"
  /\ op' = "none"
  /\ template' = Undefined
  /\ options' = Undefined
  /\ locals' = Undefined
  /\ sent' = <<>>
  /\ UNCHANGED <<config, outcome, reply, fmtVars, renderVars>>

\* the transport is about to answer the i-th suspended call: it continues
resume(i) ==
  /\ pc = "idle"
  /\ i \in 1..Len(parked)
  /\ pc' = parked[i].pc
  /\ op' = parked[i].op
  /\ template' = parked[i].template
  /\ options' = parked[i].options
  /\ locals' = parked[i].locals
  /\ sent' = parked[i].sent
  /\ parked' = SubSeq(parked, 1, i - 1) \o SubSeq(parked, i + 1, Len(parked))
  /\ UNCHANGED <<config, outcome, reply, fmtVars, renderVars>>

ConcTemplates ==
  {BodyP,
   [t |-> "object", body |-> BodyP,
    meta |-> [t |-> "object", subject |-> Str(<<"T">>), from |-> Str(<<"m", "@", "x">>),
              replyTo |-> Undefined]]}
ConcSendOptions ==
  [to : {Str(<<"t", "@", "x">>)}, cc : {Undefined}, bcc : {Undefined},
   subject : {Str(<<"H", "i">>)},
   from : {Undefined, Named(<<"O">>, <<"o", "@", "x">>)},
   replyTo : {Undefined}]
ConcRawOptions ==
  [to : {Str(<<"t", "@", "x">>)}, cc : {Undefined}, bcc : {Undefined},
   subject : {Str(<<"H", "i">>)},
   html : {Str(<<"<", "b", ">", "x", "<", "/", "b", ">">>)},
   text : {Undefined},
   from : {Undefined},
   replyTo : {Undefined}]

NextConcurrent ==
  \/ pc = "idle" /\ \E tpl \in ConcTemplates, opts \in ConcSendOptions : send(tpl, opts)
  \/ pc = "idle" /\ \E opts \in ConcRawOptions : sendRaw(opts)
  \/ pc = "idle" /\ \E tpl \in ConcTemplates : compileCall(tpl)
  \/ \E info \in SendInfos : sendMailFulfilled(info)
  \/ \E err \in TransportErrors : sendMailRejected(err)
  \/ verify
  \/ \E value \in VerifyValues : verifyFulfilled(value)
  \/ \E err \in TransportErrors : verifyRejected(err)
  \/ close
  \/ callEnds
  \/ suspend
  \/ \E i \in 1..MaxParked : resume(i)

SpecConcurrent == Init /\ [][NextConcurrent]_vars

\* what a call hands to the transport when it runs alone on the mailer: the
\* descriptor of its own arguments and the configuration, nothing for a call
\* that sends nothing
AloneSent(o, tpl, opts) ==
  IF o = "send"
  THEN IF ~Truthy(rawSubjectOf(opts, compile(tpl).meta)) THEN <<>>
       ELSE <<sendMessage(opts, compile(tpl), fromOf(opts, compile(tpl).meta),
                          formatSubject(rawSubjectOf(opts, compile(tpl).meta).s),
                          replyToOf(opts, compile(tpl).meta))>>
  ELSE IF o = "sendRaw"
  THEN <<sendRawMessage(opts, Coalesce(opts.from, config.defaultFrom),
                        formatSubject(opts.subject.s))>>
  ELSE <<>>

\* the call in flight and every suspended call have handed over what they
\* hand over alone, and a compile has returned what it returns alone
CallsAsAlone ==
  /\ op \in {"send", "sendRaw", "verify", "close"} => sent = AloneSent(op, template, options)
  /\ \A i \in 1..Len(parked) :
       parked[i].sent = AloneSent(parked[i].op, parked[i].template, parked[i].options)
  /\ Compiled => outcome.value = compile(template)

\* a step leaves the suspended calls as they are, but for the one call that
\* is suspended or resumed
OthersUntouched ==
  \/ parked' = parked
  \/ \E f \in {Frame} : parked' = Append(parked, f)
  \/ \E i \in 1..Len(parked) :
       parked' = SubSeq(parked, 1, i - 1) \o SubSeq(parked, i + 1, Len(parked))

\* C29: calls on one mailer are independent: no step of compile, send,
\* sendRaw, verify or close changes the stored configuration or a suspended
\* call, so under every interleaving each send and sendRaw hands the
\* transport the descriptor it hands over when it runs alone, and each
\* compile returns what it returns alone.
C29_CallsIndependent ==
  /\ [](CallsAsAlone)
  /\ [][config' = config /\ OthersUntouched]_vars

\* C29 witness: a send that took the configured sender and a sendRaw are
\* suspended at their awaits while a third call, a send with a sender of its
\* own, has returned
C29_Witness ==
  /\ config.defaultFrom = Str(<<"d", "@", "x">>)
  /\ Len(parked) = 2
  /\ parked[1].op = "send" /\ parked[1].options.from = Undefined
  /\ parked[1].sent[1].from = Str(<<"d", "@", "x">>)
  /\ parked[2].op = "sendRaw"
  /\ op = "send" /\ pc = "returned"
  /\ options.from = Named(<<"O">>, <<"o", "@", "x">>)
  /\ sent[1].from = Str(<<"O", " ", "<", "o", "@", "x", ">">>)

====
